---- MODULE Spec2Model ----
(***************************************************************************)
(* Model of the global recipe cache of recepify                            *)
(* (backend/app/services/import_cache.py): URL normalisation, quality      *)
(* scoring, the comparison and freshness rules and the orchestration       *)
(* import_with_cache over the GlobalRecipe table.                          *)
(*                                                                         *)
(* Conventions.  A Python str is a sequence of one-character strings.      *)
(* Optional[x] is <<>> (None) or <<x>> (a value).  A datetime is a record  *)
(* [wall, tz]: wall is the wall-clock reading in ticks, tz is None for a   *)
(* naive datetime or the UTC offset in ticks for an aware one.             *)
(***************************************************************************)
EXTENDS Integers, Sequences, FiniteSets, TLC

\* ------------------------------------------------------------------ bounds
\* resolution of the model clock
TicksPerDay == 2
\* number of times the clock is advanced in one behaviour
MaxAdvances == 1
\* number of GlobalRecipe rows the store may hold
MaxRows == 2
\* number of callers that may run import_with_cache at the same time
NumCallers == 2
\* number of rows the store may hold when the history of one URL is followed
ChainRows == 3

\* --------------------------------------------------------- program constants
WHISPER_CHUNKS == << <<0, 90>>, <<90, 90>>, <<300, 90>>, <<600, 90>> >>
WHISPER_MAX_TOTAL_SECONDS == 240
QUALITY_MIN_SCORE == 70
FRESH_DAYS == 30
\* _score_recipe's weights
TitleWeight == 10
DescriptionWeight == 10
IngredientsWeight == 35
StepsWeight == 35
CaloriesWeight == 10

\* ------------------------------------------------------------ Python values
NoneV == <<>>
Some(x) == <<x>>
IsNone(o) == o = <<>>
Val(o) == o[1]

\* truthiness of an Optional[str] or Optional[list]: None and "" / [] are falsy
Truthy(o) == (~IsNone(o)) /\ Len(Val(o)) > 0

\* value or "" / []
OrEmpty(o) == IF Truthy(o) THEN Val(o) ELSE <<>>

\* the one element of a singleton set.  Only({e : x \in {v}}) is e with x
\* standing for the value of v, which is computed once however often e uses x
Only(S) == CHOOSE x \in S : TRUE

UpperChars == <<"A","B","C","D","E","F","G","H","I","J","K","L","M",
                "N","O","P","Q","R","S","T","U","V","W","X","Y","Z">>
LowerChars == <<"a","b","c","d","e","f","g","h","i","j","k","l","m",
                "n","o","p","q","r","s","t","u","v","w","x","y","z">>

LowerChar(c) ==
    IF \E i \in 1..Len(UpperChars) : UpperChars[i] = c
    THEN LowerChars[CHOOSE i \in 1..Len(UpperChars) : UpperChars[i] = c]
    ELSE IF c = "Ä" THEN "ä"
    ELSE IF c = "Ö" THEN "ö"
    ELSE IF c = "Ü" THEN "ü"
    ELSE c

\* str.lower()
Lower(s) == [i \in 1..Len(s) |-> LowerChar(s[i])]

\* the characters the regular expression \s matches
IsSpace(c) == c \in {" ", "\t", "\n", "\r"}

\* str.startswith(p)
StartsWith(s, p) == Len(s) >= Len(p) /\ SubSeq(s, 1, Len(p)) = p

RECURSIVE CollapseSpaces(_)
\* re.sub(r"\s+", " ", value)
CollapseSpaces(s) ==
    IF s = <<>> THEN <<>>
    ELSE IF IsSpace(Head(s))
         THEN IF Len(s) > 1 /\ IsSpace(s[2])
              THEN CollapseSpaces(Tail(s))
              ELSE <<" ">> \o CollapseSpaces(Tail(s))
         ELSE <<Head(s)>> \o CollapseSpaces(Tail(s))

RECURSIVE LStrip(_)
LStrip(s) == IF s # <<>> /\ IsSpace(Head(s)) THEN LStrip(Tail(s)) ELSE s

RECURSIVE RStrip(_)
RStrip(s) ==
    IF s # <<>> /\ IsSpace(s[Len(s)]) THEN RStrip(SubSeq(s, 1, Len(s) - 1)) ELSE s

\* str.strip()
Strip(s) == LStrip(RStrip(s))

RECURSIVE RStripSlash(_)
\* str.rstrip("/")
RStripSlash(s) ==
    IF s # <<>> /\ s[Len(s)] = "/" THEN RStripSlash(SubSeq(s, 1, Len(s) - 1)) ELSE s

\* import_utils.clean_text
clean_text(value) ==
    IF ~Truthy(value) THEN <<>> ELSE Strip(CollapseSpaces(Val(value)))

\* ----------------------------------------------------------- normalize_url
TRACKING_PARAMS ==
    { <<"f","b","c","l","i","d">>,
      <<"g","c","l","i","d">>,
      <<"i","g","s","h","i","d">>,
      <<"u","t","m","_","s","o","u","r","c","e">>,
      <<"u","t","m","_","m","e","d","i","u","m">>,
      <<"u","t","m","_","c","a","m","p","a","i","g","n">>,
      <<"u","t","m","_","t","e","r","m">>,
      <<"u","t","m","_","c","o","n","t","e","n","t">>,
      <<"u","t","m","_","i","d">> }

IsTracking(k) ==
    Lower(k) \in TRACKING_PARAMS \/ StartsWith(Lower(k), <<"u","t","m","_">>)

RECURSIVE FilterQuery(_)
\* the pairs of the query whose key is not a tracking parameter, in order
FilterQuery(q) ==
    Only({ IF ps = <<>> THEN <<>>
           ELSE IF IsTracking(Head(ps)[1])
                THEN FilterQuery(Tail(ps))
                ELSE <<Head(ps)>> \o FilterQuery(Tail(ps))
           : ps \in {q} })

\* ------------------------------------------------------------ urllib.parse
Digits == <<"0","1","2","3","4","5","6","7","8","9">>
HexDigits == Digits \o <<"A","B","C","D","E","F">>

\* the printable ASCII characters, AsciiChars[i] having code 31 + i (the grave
\* accent, which a TLA+ string cannot hold, is written <grave>)
AsciiChars ==
    <<
      " ", "!", "\"", "#", "$", "%", "&", "'", "(", ")", "*", "+", ",", "-", ".", "/",
      "0", "1", "2", "3", "4", "5", "6", "7", "8", "9", ":", ";", "<", "=", ">", "?",
      "@", "A", "B", "C", "D", "E", "F", "G", "H", "I", "J", "K", "L", "M", "N", "O",
      "P", "Q", "R", "S", "T", "U", "V", "W", "X", "Y", "Z", "[", "\\", "]", "^", "_",
      "<grave>", "a", "b", "c", "d", "e", "f", "g", "h", "i", "j", "k", "l", "m", "n", "o",
      "p", "q", "r", "s", "t", "u", "v", "w", "x", "y", "z", "{", "|", "}", "~" >>

InSeq(c, s) == \E i \in 1..Len(s) : s[i] = c

\* position of c in a sequence without repetitions
IndexIn(c, s) == CHOOSE i \in 1..Len(s) : s[i] = c

\* str.find(c, start), positions counted from 1 and 0 for "not found"
Find(s, c, start) ==
    Only({ IF \E i \in a..Len(t) : t[i] = c
           THEN CHOOSE i \in a..Len(t) : t[i] = c /\ \A j \in a..(i - 1) : t[j] # c
           ELSE 0 : t \in {s}, a \in {start} })

\* str.rfind(c)
RFind(s, c) ==
    Only({ IF \E i \in 1..Len(t) : t[i] = c
           THEN CHOOSE i \in 1..Len(t) : t[i] = c /\ \A j \in (i + 1)..Len(t) : t[j] # c
           ELSE 0 : t \in {s} })

\* _splitnetloc: position of the first of / ? # at or after start
FindDelim(s, start) ==
    Only({ IF \E i \in a..Len(t) : t[i] \in {"/", "?", "#"}
           THEN CHOOSE i \in a..Len(t) :
                   t[i] \in {"/", "?", "#"} /\ \A j \in a..(i - 1) : t[j] \notin {"/", "?", "#"}
           ELSE 0 : t \in {s}, a \in {start} })

\* the rest of s from position i on
From(s, i) == Only({SubSeq(t, i, Len(t)) : t \in {s}})

IsAlpha(c) == InSeq(c, UpperChars) \/ InSeq(c, LowerChars)
IsSchemeChar(c) == IsAlpha(c) \/ InSeq(c, Digits) \/ c \in {"+", "-", "."}

NotUnsafe(c) == c \notin {"\t", "\n", "\r"}

uses_params ==
    {
      <<>>, <<"f","t","p">>, <<"h","d","l">>, <<"p","r","o","s","p","e","r","o">>,
      <<"h","t","t","p">>, <<"i","m","a","p">>, <<"h","t","t","p","s">>,
      <<"s","h","t","t","p">>, <<"r","t","s","p">>, <<"r","t","s","p","s">>,
      <<"r","t","s","p","u">>, <<"s","i","p">>, <<"s","i","p","s">>, <<"m","m","s">>,
      <<"s","f","t","p">>, <<"t","e","l">> }

uses_netloc ==
    {
      <<>>, <<"f","t","p">>, <<"h","t","t","p">>, <<"g","o","p","h","e","r">>,
      <<"n","n","t","p">>, <<"t","e","l","n","e","t">>, <<"i","m","a","p">>,
      <<"w","a","i","s">>, <<"f","i","l","e">>, <<"m","m","s">>,
      <<"h","t","t","p","s">>, <<"s","h","t","t","p">>, <<"s","n","e","w","s">>,
      <<"p","r","o","s","p","e","r","o">>, <<"r","t","s","p">>,
      <<"r","t","s","p","s">>, <<"r","t","s","p","u">>, <<"r","s","y","n","c">>,
      <<"s","v","n">>, <<"s","v","n","+","s","s","h">>, <<"s","f","t","p">>,
      <<"n","f","s">>, <<"g","i","t">>, <<"g","i","t","+","s","s","h">>, <<"w","s">>,
      <<"w","s","s">> }

\* urlsplit: leading spaces and every tab and line break are removed, then
\* scheme, netloc, fragment and query are cut off in this order.  i is the
\* position of the colon that ends the scheme, a where the text after the
\* scheme starts, d where the netloc ends, b where the path starts, h the
\* position of the # and q that of the ? that starts the query
urlsplit(url) ==
    Only({ LET n  == Len(u0)
               i  == Find(u0, ":", 1)
               hasScheme == /\ i > 1
                            /\ IsAlpha(u0[1])
                            /\ \A j \in 1..(i - 1) : IsSchemeChar(u0[j])
               a  == IF hasScheme THEN i + 1 ELSE 1
               hasNetloc == a + 1 <= n /\ u0[a] = "/" /\ u0[a + 1] = "/"
               d  == FindDelim(u0, a + 2)
               b  == IF ~hasNetloc THEN a ELSE IF d = 0 THEN n + 1 ELSE d
               h  == Find(u0, "#", b)
               e  == IF h > 0 THEN h - 1 ELSE n
               q  == IF Find(u0, "?", b) > 0 /\ Find(u0, "?", b) <= e
                     THEN Find(u0, "?", b) ELSE 0
           IN [ scheme   |-> IF hasScheme THEN Lower(SubSeq(u0, 1, i - 1)) ELSE <<>>,
                netloc   |-> IF hasNetloc THEN SubSeq(u0, a + 2, b - 1) ELSE <<>>,
                path     |-> SubSeq(u0, b, IF q > 0 THEN q - 1 ELSE e),
                query    |-> IF q > 0 THEN SubSeq(u0, q + 1, e) ELSE <<>>,
                fragment |-> IF h > 0 THEN SubSeq(u0, h + 1, n) ELSE <<>> ]
           : u0 \in {SelectSeq(LStrip(url), NotUnsafe)} })

\* _splitparams: the path is cut at the first ; of its last segment
_splitparams(url) ==
    Only({ LET i == IF InSeq("/", t) THEN Find(t, ";", RFind(t, "/"))
                    ELSE Find(t, ";", 1)
           IN IF i = 0 THEN <<t, <<>>>>
              ELSE <<SubSeq(t, 1, i - 1), From(t, i + 1)>>
           : t \in {url} })

urlparse(url) ==
    Only({ LET split == IF sp.scheme \in uses_params /\ InSeq(";", sp.path)
                        THEN _splitparams(sp.path)
                        ELSE <<sp.path, <<>>>>
           IN [ scheme |-> sp.scheme, netloc |-> sp.netloc, path |-> split[1],
                params |-> split[2], query |-> sp.query, fragment |-> sp.fragment ]
           : sp \in {urlsplit(url)} })

\* urlunparse, with the query and fragment given as strings
urlunparse(components) ==
    Only({ LET url0 == IF c.params # <<>> THEN c.path \o <<";">> \o c.params ELSE c.path
               url1 == IF \/ c.netloc # <<>>
                          \/ ( /\ c.scheme # <<>>
                               /\ c.scheme \in uses_netloc
                               /\ ~StartsWith(url0, <<"/","/">>) )
                       THEN <<"/","/">> \o c.netloc
                            \o (IF url0 # <<>> /\ url0[1] # "/" THEN <<"/">> ELSE <<>>)
                            \o url0
                       ELSE url0
               url2 == IF c.scheme # <<>> THEN c.scheme \o <<":">> \o url1 ELSE url1
               url3 == IF c.query # <<>> THEN url2 \o <<"?">> \o c.query ELSE url2
           IN IF c.fragment # <<>> THEN url3 \o <<"#">> \o c.fragment ELSE url3
           : c \in {components} })

RECURSIVE SplitOn(_, _)
\* str.split(sep) for a one-character separator
SplitOn(s, sep) ==
    Only({ IF i = 0 THEN <<t>>
           ELSE <<SubSeq(t, 1, i - 1)>> \o SplitOn(From(t, i + 1), sep)
           : t \in {s}, i \in {Find(s, sep, 1)} })

IsHex(c) == InSeq(c, HexDigits) \/ InSeq(c, <<"a","b","c","d","e","f">>)
HexVal(c) == IndexIn(IF InSeq(c, HexDigits) THEN c ELSE UpperChars[IndexIn(c, LowerChars)],
                     HexDigits) - 1

RECURSIVE unquote(_)
\* urllib.parse.unquote on escapes of printable ASCII characters; any other
\* escape is left as it stands
unquote(s) ==
    Only({ IF t = <<>> THEN <<>>
           ELSE IF /\ t[1] = "%" /\ Len(t) >= 3 /\ IsHex(t[2]) /\ IsHex(t[3])
                   /\ 16 * HexVal(t[2]) + HexVal(t[3]) \in 32..126
                THEN <<AsciiChars[16 * HexVal(t[2]) + HexVal(t[3]) - 31]>>
                     \o unquote(From(t, 4))
                ELSE <<t[1]>> \o unquote(Tail(t))
           : t \in {s} })

\* str.replace("+", " ")
PlusToSpace(s) == Only({[i \in 1..Len(t) |-> IF t[i] = "+" THEN " " ELSE t[i]] : t \in {s}})

\* one name=value piece of a query, decoded
PairOf(name_value) ==
    Only({ << unquote(PlusToSpace(IF e = 0 THEN t ELSE SubSeq(t, 1, e - 1))),
              unquote(PlusToSpace(IF e = 0 THEN <<>> ELSE From(t, e + 1))) >>
           : t \in {name_value}, e \in {Find(name_value, "=", 1)} })

RECURSIVE PairsOf(_)
PairsOf(pieces) ==
    Only({ IF ps = <<>> THEN <<>>
           ELSE (IF Head(ps) = <<>> THEN <<>> ELSE <<PairOf(Head(ps))>>) \o PairsOf(Tail(ps))
           : ps \in {pieces} })

\* parse_qsl(qs, keep_blank_values=True)
parse_qsl(qs) == IF qs = <<>> THEN <<>> ELSE PairsOf(SplitOn(qs, "&"))

IsUnreserved(c) == IsAlpha(c) \/ InSeq(c, Digits) \/ c \in {"_", ".", "-", "~"}

RECURSIVE quote_plus(_)
\* urllib.parse.quote_plus on printable ASCII text
quote_plus(s) ==
    Only({ IF t = <<>> THEN <<>>
           ELSE (IF IsUnreserved(t[1]) THEN <<t[1]>>
                 ELSE IF t[1] = " " THEN <<"+">>
                 ELSE IF InSeq(t[1], AsciiChars)
                      THEN <<"%", HexDigits[((IndexIn(t[1], AsciiChars) + 31) \div 16) + 1],
                                  HexDigits[((IndexIn(t[1], AsciiChars) + 31) % 16) + 1]>>
                      ELSE <<t[1]>>)
                \o quote_plus(Tail(t))
           : t \in {s} })

RECURSIVE urlencode(_)
\* urlencode(pairs, doseq=True) for pairs of strings
urlencode(pairs) ==
    Only({ IF ps = <<>> THEN <<>>
           ELSE quote_plus(Head(ps)[1]) \o <<"=">> \o quote_plus(Head(ps)[2])
                \o (IF Len(ps) > 1 THEN <<"&">> \o urlencode(Tail(ps)) ELSE <<>>)
           : ps \in {pairs} })

normalize_url(raw_url) ==
    Only({ LET query_params == parse_qsl(parsed.query)
               filtered == FilterQuery(query_params)
           IN urlunparse([ parsed EXCEPT
                  !.scheme   = IF Lower(@) # <<>> THEN Lower(@) ELSE <<"h","t","t","p","s">>,
                  !.netloc   = Lower(@),
                  !.path     = IF RStripSlash(@) # <<>> THEN RStripSlash(@) ELSE <<"/">>,
                  !.query    = urlencode(filtered),
                  !.fragment = <<>> ])
           : parsed \in {urlparse(Strip(raw_url))} })

\* ----------------------------------------------------------- _score_recipe
RecipeIngredients(recipe_data) == OrEmpty(recipe_data.ingredients)
RecipeInstructions(recipe_data) == OrEmpty(recipe_data.instructions)

\* _score_recipe that takes title and description as they come, blank or not
_score_recipe_unclean(recipe_data) ==
    LET ingredients  == RecipeIngredients(recipe_data)
        instructions == RecipeInstructions(recipe_data)
        title        == OrEmpty(recipe_data.title)
        description  == OrEmpty(recipe_data.description)
        score == (IF title # <<>> THEN TitleWeight ELSE 0)
               + (IF description # <<>> THEN DescriptionWeight ELSE 0)
               + (IF ingredients # <<>> THEN IngredientsWeight ELSE 0)
               + (IF instructions # <<>> THEN StepsWeight ELSE 0)
               + (IF Truthy(recipe_data.nutritionCalories) THEN CaloriesWeight ELSE 0)
        missing == (IF title # <<>> THEN <<>> ELSE <<"title">>)
                \o (IF ingredients # <<>> THEN <<>> ELSE <<"ingredients">>)
                \o (IF instructions # <<>> THEN <<>> ELSE <<"steps">>)
    IN [ score       |-> score,
         is_complete |-> (ingredients # <<>> /\ instructions # <<>>),
         missing     |-> missing ]

\* _score_recipe that calls a recipe complete once it has ingredients
_score_recipe_complete_by_ingredients(recipe_data) ==
    LET ingredients  == RecipeIngredients(recipe_data)
        instructions == RecipeInstructions(recipe_data)
        title        == clean_text(recipe_data.title)
        description  == clean_text(recipe_data.description)
        score == (IF title # <<>> THEN TitleWeight ELSE 0)
               + (IF description # <<>> THEN DescriptionWeight ELSE 0)
               + (IF ingredients # <<>> THEN IngredientsWeight ELSE 0)
               + (IF instructions # <<>> THEN StepsWeight ELSE 0)
               + (IF Truthy(recipe_data.nutritionCalories) THEN CaloriesWeight ELSE 0)
        missing == (IF title # <<>> THEN <<>> ELSE <<"title">>)
                \o (IF ingredients # <<>> THEN <<>> ELSE <<"ingredients">>)
                \o (IF instructions # <<>> THEN <<>> ELSE <<"steps">>)
    IN [ score       |-> score,
         is_complete |-> (ingredients # <<>>),
         missing     |-> missing ]

_score_recipe(recipe_data) ==
    LET ingredients  == RecipeIngredients(recipe_data)
        instructions == RecipeInstructions(recipe_data)
        title        == clean_text(recipe_data.title)
        description  == clean_text(recipe_data.description)
        score == (IF title # <<>> THEN TitleWeight ELSE 0)
               + (IF description # <<>> THEN DescriptionWeight ELSE 0)
               + (IF ingredients # <<>> THEN IngredientsWeight ELSE 0)
               + (IF instructions # <<>> THEN StepsWeight ELSE 0)
               + (IF Truthy(recipe_data.nutritionCalories) THEN CaloriesWeight ELSE 0)
        missing == (IF title # <<>> THEN <<>> ELSE <<"title">>)
                \o (IF ingredients # <<>> THEN <<>> ELSE <<"ingredients">>)
                \o (IF instructions # <<>> THEN <<>> ELSE <<"steps">>)
    IN [ score       |-> score,
         is_complete |-> (ingredients # <<>> /\ instructions # <<>>),
         missing     |-> missing ]

\* --------------------------------------------------- _build_canonical_hash
\* clean_text(value or "").lower()
_normalize_text(value) == Lower(clean_text(value))

\* item.get("line") or item.get("name") or ""
IngredientLine(item) ==
    IF Truthy(item.line) THEN item.line
    ELSE IF Truthy(item.name) THEN item.name
    ELSE Some(<<>>)

RECURSIVE JoinLines(_)
\* "\n".join(lines) for a non-empty list of strings
JoinLines(lines) ==
    IF Len(lines) = 1 THEN lines[1]
    ELSE lines[1] \o <<"\n">> \o JoinLines(Tail(lines))

\* hashlib.sha256(payload).hexdigest(): the digest is represented by the text
\* it was computed from, equal digests standing for equal texts
Sha256Hex(payload) == [sha256 |-> payload]

\* _build_canonical_hash that hashes the text as fetched, case and spacing kept
_build_canonical_hash_raw(recipe_data) ==
    LET ingredients  == RecipeIngredients(recipe_data)
        instructions == RecipeInstructions(recipe_data)
        title == OrEmpty(recipe_data.title)
        ingredient_lines ==
            [i \in 1..Len(ingredients) |-> OrEmpty(IngredientLine(ingredients[i]))]
        instruction_lines ==
            [i \in 1..Len(instructions) |-> OrEmpty(instructions[i].text)]
    IN Sha256Hex(JoinLines(<<title>> \o ingredient_lines \o instruction_lines))

_build_canonical_hash(recipe_data) ==
    LET ingredients  == RecipeIngredients(recipe_data)
        instructions == RecipeInstructions(recipe_data)
        title == _normalize_text(recipe_data.title)
        ingredient_lines ==
            [i \in 1..Len(ingredients) |-> _normalize_text(IngredientLine(ingredients[i]))]
        instruction_lines ==
            [i \in 1..Len(instructions) |-> _normalize_text(instructions[i].text)]
    IN Sha256Hex(JoinLines(<<title>> \o ingredient_lines \o instruction_lines))

RECURSIVE JoinWith(_, _)
\* sep.join(strs)
JoinWith(sep, strs) ==
    IF strs = <<>> THEN <<>>
    ELSE IF Len(strs) = 1 THEN strs[1]
    ELSE strs[1] \o sep \o JoinWith(sep, Tail(strs))

\* item.get(key, ""): the value under the key, "" where the item has none
GetOrEmpty(o) == IF IsNone(o) THEN <<>> ELSE Val(o)

\* the four parts detect_language reads: title, description, the ingredient
\* names joined by a space, the step texts joined by a space
LanguageParts(recipe_data) ==
    << recipe_data.title,
       recipe_data.description,
       Some(JoinWith(<<" ">>, [i \in 1..Len(RecipeIngredients(recipe_data)) |->
                                  GetOrEmpty(RecipeIngredients(recipe_data)[i].name)])),
       Some(JoinWith(<<" ">>, [i \in 1..Len(RecipeInstructions(recipe_data)) |->
                                  GetOrEmpty(RecipeInstructions(recipe_data)[i].text)])) >>

\* " ".join([clean_text(str(value)) for value in parts if value]).lower()
LanguageText(recipe_data) ==
    Only({ Lower(JoinWith(<<" ">>, [i \in 1..Len(kept) |-> clean_text(kept[i])]))
           : kept \in {SelectSeq(LanguageParts(recipe_data), Truthy)} })

german_indicators ==
    << <<" ","u","n","d"," ">>,
       <<" ","m","i","t"," ">>,
       <<" ","z","u","t","a","t","e","n">>,
       <<" ","o","f","e","n">>,
       <<" ","p","f","a","n","n","e">>,
       <<" ","m","i","n","u","t","e","n">>,
       <<" ","g","r","a","m","m">>,
       <<" ","e","l"," ">>,
       <<" ","t","l"," ">>,
       <<" ","d","i","e"," ">>,
       <<" ","d","e","r"," ">>,
       <<" ","d","a","s"," ">>,
       <<" ","z","u","b","e","r","e","i","t","u","n","g">> >>

english_indicators ==
    << <<" ","a","n","d"," ">>,
       <<" ","w","i","t","h"," ">>,
       <<" ","i","n","g","r","e","d","i","e","n","t","s">>,
       <<" ","o","v","e","n">>,
       <<" ","p","a","n">>,
       <<" ","m","i","n","u","t","e","s">>,
       <<" ","t","b","s","p">>,
       <<" ","t","s","p">>,
       <<" ","c","u","p","s">>,
       <<" ","p","r","e","h","e","a","t">>,
       <<" ","b","a","k","e">>,
       <<" ","s","e","r","v","e">> >>

\* token in text
Contains(text, token) ==
    \E i \in 1..(Len(text) - Len(token) + 1) : SubSeq(text, i, i + Len(token) - 1) = token

\* sum(1 for token in indicators if token in text)
CountFound(indicators, text) ==
    Cardinality({k \in 1..Len(indicators) : Contains(text, indicators[k])})

\* any(char in text for char in ["ä", "ö", "ü", "ß"])
HasUmlaut(text) == \E i \in 1..Len(text) : text[i] \in {"ä", "ö", "ü", "ß"}

german_score(text) == CountFound(german_indicators, text) + (IF HasUmlaut(text) THEN 2 ELSE 0)

english_score(text) == CountFound(english_indicators, text)

\* detect_language that answers "de" on a tie
detect_language_on_tie(recipe_data) ==
    Only({ IF text = <<>> THEN "en"
           ELSE IF german_score(text) >= english_score(text) THEN "de" ELSE "en"
           : text \in {LanguageText(recipe_data)} })

detect_language(recipe_data) ==
    Only({ IF text = <<>> THEN "en"
           ELSE IF german_score(text) > english_score(text) THEN "de" ELSE "en"
           : text \in {LanguageText(recipe_data)} })

\* -------------------------------------------------------------- datetimes
Naive(t) == [wall |-> t, tz |-> NoneV]
Aware(t, off) == [wall |-> t, tz |-> Some(off)]

\* datetime.replace(tzinfo=timezone.utc)
ReplaceTzUtc(dt) == [dt EXCEPT !.tz = Some(0)]

\* the instant an aware datetime denotes, in ticks since the epoch (UTC)
Instant(dt) == dt.wall - Val(dt.tz)

\* timedelta(days=FRESH_DAYS)
FreshWindow == FRESH_DAYS * TicksPerDay

\* --------------------------------------------------------------- _is_better
\* _is_better with "at least as good" in place of "strictly better"
_is_better_or_equal(new_score, new_complete, existing) ==
    IF existing.is_complete /\ ~new_complete THEN FALSE
    ELSE IF new_complete /\ ~existing.is_complete THEN TRUE
    ELSE new_score >= existing.quality_score

_is_better(new_score, new_complete, existing) ==
    IF existing.is_complete /\ ~new_complete THEN FALSE
    ELSE IF new_complete /\ ~existing.is_complete THEN TRUE
    ELSE new_score > existing.quality_score

\* --------------------------------------------------------- _should_reimport
\* _should_reimport that also refetches an entry whose score is the minimum
_should_reimport_score_le(existing, clock) ==
    IF IsNone(existing) THEN TRUE
    ELSE IF ~Val(existing).is_complete THEN TRUE
    ELSE IF Val(existing).quality_score <= QUALITY_MIN_SCORE THEN TRUE
    ELSE IF IsNone(Val(existing).last_fetched_at) THEN TRUE
    ELSE LET raw == Val(Val(existing).last_fetched_at)
             last_fetched_at == IF IsNone(raw.tz) THEN ReplaceTzUtc(raw) ELSE raw
         IN Instant(Aware(clock, 0)) - Instant(last_fetched_at) > FreshWindow

\* _should_reimport that refetches from the 30th day on
_should_reimport_age_ge(existing, clock) ==
    IF IsNone(existing) THEN TRUE
    ELSE IF ~Val(existing).is_complete THEN TRUE
    ELSE IF Val(existing).quality_score < QUALITY_MIN_SCORE THEN TRUE
    ELSE IF IsNone(Val(existing).last_fetched_at) THEN TRUE
    ELSE LET raw == Val(Val(existing).last_fetched_at)
             last_fetched_at == IF IsNone(raw.tz) THEN ReplaceTzUtc(raw) ELSE raw
         IN Instant(Aware(clock, 0)) - Instant(last_fetched_at) >= FreshWindow

\* existing is an Optional row, clock the reading of the UTC clock in ticks
_should_reimport(existing, clock) ==
    IF IsNone(existing) THEN TRUE
    ELSE IF ~Val(existing).is_complete THEN TRUE
    ELSE IF Val(existing).quality_score < QUALITY_MIN_SCORE THEN TRUE
    ELSE IF IsNone(Val(existing).last_fetched_at) THEN TRUE
    ELSE LET raw == Val(Val(existing).last_fetched_at)
             last_fetched_at == IF IsNone(raw.tz) THEN ReplaceTzUtc(raw) ELSE raw
         IN Instant(Aware(clock, 0)) - Instant(last_fetched_at) > FreshWindow

\* ------------------------------------------------------- _to_recipe_payload
_to_recipe_payload(global_recipe) ==
    [ title             |-> global_recipe.title,
      description       |-> global_recipe.description,
      nutritionCalories |-> global_recipe.nutrition_calories,
      ingredients       |-> Some(global_recipe.ingredients),
      instructions      |-> Some(global_recipe.steps) ]

\* ------------------------------------------------------------ the machine
VARIABLES mode, store, now, advances, nextId, call, last, prev, completeReturned, probe,
          request, service

vars == <<mode, store, now, advances, nextId, call, last, prev, completeReturned, probe,
          request, service>>

Callers == 1..NumCallers

\* the URLs callers import; both have the cache key https://ex.com/r
UrlPlain ==
    <<"h","t","t","p","s",":","/","/","e","x",".","c","o","m","/","r">>
UrlTracked ==
    <<"h","t","t","p","s",":","/","/","E","X",".","c","o","m","/","r","/","?","u","t","m","_","s","o","u","r","c","e","=","x","#","t","o","p">>
RawUrls == {UrlPlain, UrlTracked}

\* what a fetcher may return
IngredientEgg == [line |-> Some(<<"1"," ","e","g","g">>), name |-> NoneV]
StepMix == [text |-> Some(<<"m","i","x">>)]
\* title only: score 10, incomplete
PayloadTitleOnly ==
    [ title |-> Some(<<"A">>), description |-> NoneV, nutritionCalories |-> NoneV,
      ingredients |-> Some(<<>>), instructions |-> NoneV ]
\* everything but the steps: score 65, incomplete
PayloadPartial ==
    [ title |-> Some(<<"A">>), description |-> Some(<<"d">>),
      nutritionCalories |-> Some(<<"9">>),
      ingredients |-> Some(<<IngredientEgg>>), instructions |-> Some(<<>>) ]
\* ingredients and steps only: score 70, complete
PayloadWeak ==
    [ title |-> Some(<<" ">>), description |-> NoneV, nutritionCalories |-> NoneV,
      ingredients |-> Some(<<IngredientEgg>>), instructions |-> Some(<<StepMix>>) ]
\* title, description, ingredients and steps: score 90, complete
PayloadFull ==
    [ title |-> Some(<<"A">>), description |-> Some(<<"d">>), nutritionCalories |-> NoneV,
      ingredients |-> Some(<<IngredientEgg>>), instructions |-> Some(<<StepMix>>) ]
FetchResults == {PayloadTitleOnly, PayloadPartial, PayloadWeak, PayloadFull}

\* how far the clock moves in one step: to the last instant of the freshness
\* window of a row just written, or one tick past it
AdvanceSteps == {FreshWindow, FreshWindow + 1}

\* datetime.utcnow()
utcnow == Naive(now)

\* no pure function is being evaluated
NoProbe == [fn |-> "none", args |-> <<>>, out |-> NoneV]

IdleCall == [pc |-> "idle", normalized |-> normalize_url(UrlPlain),
             existing |-> NoneV, began |-> 0, fetches |-> 0]

\* no HTTP request has been received
NoRequest ==
    [ pc |-> "idle", endpoint |-> "", url |-> UrlPlain, user |-> FALSE,
      calls |-> <<>>, status |-> 0, recipe |-> NoneV ]

\* no audio is being transcribed
NoAudio ==
    [ stage |-> "none", branch |-> "", chunk |-> 1, used |-> 0, sent |-> 0,
      steps_override |-> 0, subs_text |-> FALSE ]

\* no platform service is running
NoService ==
    [ name |-> "", pc |-> "idle", calls |-> <<>>, structured |-> <<>>, error |-> "",
      data |-> NoneV, page |-> <<>>, audio |-> NoAudio ]

\* the caller's record once its call has returned: a concurrent caller stands
\* for one request and makes no further call
AfterCall == IF mode = "conc" THEN [IdleCall EXCEPT !.pc = "done"] ELSE IdleCall

InitWith(m, p) ==
    /\ mode = m
    /\ store = {}
    /\ now = 0
    /\ advances = 0
    /\ nextId = 1
    /\ call = [c \in Callers |-> IdleCall]
    /\ last = NoneV
    /\ prev = NoneV
    /\ completeReturned = {}
    /\ probe = p
    /\ request = NoRequest
    /\ service = NoService

\* imports run one after another
Init == InitWith("seq", NoProbe)

\* the rows the query of import_with_cache matches
Candidates(normalized) ==
    {r \in store : r.source_url_normalized = normalized /\ IsNone(r.supersedes_id)}

\* .order_by(updated_at.desc()).first(): a row with the greatest updated_at
\* (the order among equal timestamps is the database's choice), or None
Lookup(normalized) ==
    IF Candidates(normalized) = {} THEN {NoneV}
    ELSE {Some(r) : r \in {x \in Candidates(normalized) :
                \A y \in Candidates(normalized) : y.updated_at.wall <= x.updated_at.wall}}

\* the payload a call returned has ingredients and steps
PayloadComplete(p) ==
    Truthy(p.ingredients) /\ Truthy(p.instructions)

\* what the fetcher did in a call: not invoked, raised, or returned a payload
\* (with the score and completeness _score_recipe gave it)
NotFetched == [outcome |-> "none", score |-> 0, is_complete |-> FALSE]
FetchFailed == [outcome |-> "raise", score |-> 0, is_complete |-> FALSE]
Fetched(recipe_data) ==
    [ outcome |-> "ok", score |-> _score_recipe(recipe_data).score,
      is_complete |-> _score_recipe(recipe_data).is_complete ]

\* record of a completed call, kept for the properties: its cache key, the
\* path it took, what the fetcher did, the row the lookup found, the row the
\* call returned, whether the payload it returned is complete, and the clock
\* when it began; tick alternates from one completed call to the next
Summary(normalized, kind, got, existing, payload, entry, began) ==
    [ tick |-> IF IsNone(last) THEN TRUE ELSE ~Val(last).tick,
      key |-> normalized, kind |-> kind, got |-> got,
      found |-> IF IsNone(existing) THEN NoneV ELSE Some(Val(existing).id),
      complete |-> (~IsNone(payload) /\ PayloadComplete(Val(payload))),
      entry |-> IF IsNone(entry) THEN NoneV ELSE Some(Val(entry).id),
      began |-> began ]

\* the keys for which some call has returned a complete recipe
NoteReturn(normalized, payload) ==
    completeReturned' =
        IF ~IsNone(payload) /\ PayloadComplete(Val(payload))
        THEN completeReturned \cup {normalized}
        ELSE completeReturned

InFlight == Cardinality({c \in Callers : call[c].pc = "fetching"})

\* MayBegin under a lock: no call starts while another is in flight
MayBegin_locked(c) ==
    /\ call[c].pc = "idle"
    /\ InFlight = 0
    /\ mode # "conc" => c = 1

\* lines 192-198: a call may start whenever its caller is not in a call; the
\* function takes no lock and no transaction spans lookup and write (when
\* imports run one after another, caller 1 makes them all)
MayBegin(c) ==
    /\ call[c].pc = "idle"
    /\ mode # "conc" => (c = 1 /\ InFlight = 0)

\* lines 198-207: normalise, look up, and return the cached entry when fresh
Begin(c, url) ==
    /\ MayBegin(c)
    /\ \E normalized \in {normalize_url(url)} :
       \E existing \in Lookup(normalized) :
         IF ~IsNone(existing) /\ ~_should_reimport(existing, now)
         THEN /\ prev' = last
              /\ last' = Some(Summary(normalized, "cached", NotFetched, existing,
                                      Some(_to_recipe_payload(Val(existing))),
                                      existing, now))
              /\ NoteReturn(normalized, Some(_to_recipe_payload(Val(existing))))
              /\ call' = [call EXCEPT ![c] = AfterCall]
              /\ UNCHANGED <<service, mode, store, now, advances, nextId, probe, request>>
         ELSE /\ call' = [call EXCEPT ![c] =
                        [ pc |-> "fetching", normalized |-> normalized,
                          existing |-> existing, began |-> now, fetches |-> 1 ]]
              /\ UNCHANGED <<service, mode, store, now, advances, nextId, last, prev,
                             completeReturned, probe, request>>

\* the call of caller c returns (or raises, kind "raised")
Finish(c, kind, got, payload, entry) ==
    /\ call' = [call EXCEPT ![c] = AfterCall]
    /\ prev' = last
    /\ last' = Some(Summary(call[c].normalized, kind, got, call[c].existing,
                            payload, entry, call[c].began))
    /\ NoteReturn(call[c].normalized, payload)
    /\ UNCHANGED <<probe, request>>

\* FetchRaises without the fallback to the cached entry
FetchRaises_no_fallback(c) ==
    /\ call[c].pc = "fetching"
    /\ Finish(c, "raised", FetchFailed, NoneV, NoneV)
    /\ UNCHANGED <<service, mode, store, now, advances, nextId>>

\* FetchRaises that calls the fetcher a second time before it gives up
FetchRaises_retrying(c) ==
    /\ call[c].pc = "fetching"
    /\ LET existing == call[c].existing IN
       IF call[c].fetches < 2
       THEN /\ call' = [call EXCEPT ![c].fetches = @ + 1]
            /\ UNCHANGED <<last, prev, completeReturned, probe, request>>
       ELSE IF ~IsNone(existing)
       THEN Finish(c, "fallback", FetchFailed,
                   Some(_to_recipe_payload(Val(existing))), existing)
       ELSE Finish(c, "raised", FetchFailed, NoneV, NoneV)
    /\ UNCHANGED <<service, mode, store, now, advances, nextId>>

\* lines 209-215: the fetcher raises
FetchRaises(c) ==
    /\ call[c].pc = "fetching"
    /\ LET existing == call[c].existing IN
       IF ~IsNone(existing)
       THEN Finish(c, "fallback", FetchFailed,
                   Some(_to_recipe_payload(Val(existing))), existing)
       ELSE Finish(c, "raised", FetchFailed, NoneV, NoneV)
    /\ UNCHANGED <<service, mode, store, now, advances, nextId>>

\* the bound on the rows of the store
RowCap == IF mode = "chain" THEN ChainRows ELSE MaxRows

\* NewEntry without the back-reference to the entry it replaces
NewEntry_no_link(c, recipe_data, id, group) ==
    LET scored == _score_recipe(recipe_data)
    IN [ id |-> id,
         source_url_normalized |-> call[c].normalized,
         title |-> recipe_data.title,
         description |-> recipe_data.description,
         nutrition_calories |-> recipe_data.nutritionCalories,
         ingredients |-> RecipeIngredients(recipe_data),
         steps |-> RecipeInstructions(recipe_data),
         quality_score |-> scored.score,
         is_complete |-> scored.is_complete,
         missing_fields |-> scored.missing,
         last_fetched_at |-> Some(utcnow),
         language_code |-> detect_language(recipe_data),
         canonical_hash |-> _build_canonical_hash(recipe_data),
         canonical_group_id |-> Some(group),
         supersedes_id |-> NoneV,
         updated_at |-> utcnow ]

\* lines 225-256: the row built from the fetched payload
NewEntry(c, recipe_data, id, group) ==
    LET scored == _score_recipe(recipe_data)
        existing == call[c].existing
    IN [ id |-> id,
         source_url_normalized |-> call[c].normalized,
         title |-> recipe_data.title,
         description |-> recipe_data.description,
         nutrition_calories |-> recipe_data.nutritionCalories,
         ingredients |-> RecipeIngredients(recipe_data),
         steps |-> RecipeInstructions(recipe_data),
         quality_score |-> scored.score,
         is_complete |-> scored.is_complete,
         missing_fields |-> scored.missing,
         last_fetched_at |-> Some(utcnow),
         language_code |-> detect_language(recipe_data),
         canonical_hash |-> _build_canonical_hash(recipe_data),
         canonical_group_id |-> Some(group),
         supersedes_id |-> IF ~IsNone(existing) THEN Some(Val(existing).id) ELSE NoneV,
         updated_at |-> utcnow ]

\* Touch that updates every row of the entry's URL
Touch_all_of_url(existing) ==
    {IF r.source_url_normalized = existing.source_url_normalized
     THEN [r EXCEPT !.last_fetched_at = Some(utcnow), !.updated_at = utcnow]
     ELSE r : r \in store}

\* lines 259-262: UPDATE of the two timestamp columns of the row existing names
Touch(existing) ==
    {IF r.id = existing.id
     THEN [r EXCEPT !.last_fetched_at = Some(utcnow), !.updated_at = utcnow]
     ELSE r : r \in store}

\* Insert that removes the row the new one supersedes
Insert_replacing(new_entry) ==
    {r \in store : Some(r.id) # new_entry.supersedes_id} \cup {new_entry}

\* lines 265-266: session.add(new_entry) and commit, an INSERT of one row
Insert(new_entry) ==
    store \cup {new_entry}

\* lines 210, 217-268: the fetcher returns a payload
FetchReturns(c, recipe_data) ==
    /\ call[c].pc = "fetching"
    /\ LET existing == call[c].existing
           scored == _score_recipe(recipe_data)
           reuseGroup == ~IsNone(existing) /\ ~IsNone(Val(existing).canonical_group_id)
           \* uuid4() for the group (line 220), then for the row's id
           group == IF reuseGroup THEN Val(Val(existing).canonical_group_id) ELSE nextId
           id == IF reuseGroup THEN nextId ELSE nextId + 1
       IN IF ~IsNone(existing)
             /\ ~_is_better(scored.score, scored.is_complete, Val(existing))
          THEN LET touched == [Val(existing) EXCEPT !.last_fetched_at = Some(utcnow),
                                                    !.updated_at = utcnow]
               IN /\ store' = Touch(Val(existing))
                  /\ nextId' = IF reuseGroup THEN nextId ELSE nextId + 1
                  /\ Finish(c, "touched", Fetched(recipe_data),
                            Some(_to_recipe_payload(touched)), Some(touched))
          ELSE LET new_entry == NewEntry(c, recipe_data, id, group)
               IN /\ Cardinality(store) < RowCap
                  /\ store' = Insert(new_entry)
                  /\ nextId' = id + 1
                  /\ Finish(c, "inserted", Fetched(recipe_data),
                            Some(_to_recipe_payload(new_entry)), Some(new_entry))
    /\ UNCHANGED <<service, mode, now, advances>>

\* time passes
Advance(d) ==
    /\ advances < MaxAdvances
    /\ now' = now + d
    /\ advances' = advances + 1
    /\ UNCHANGED <<service, mode, store, nextId, call, last, prev, completeReturned, probe, request>>

Next ==
    \/ \E c \in Callers, url \in RawUrls : Begin(c, url)
    \/ \E c \in Callers : FetchRaises(c)
    \/ \E c \in Callers, recipe_data \in FetchResults : FetchReturns(c, recipe_data)
    \/ \E d \in AdvanceSteps : Advance(d)

Spec == Init /\ [][Next]_vars

\* ------------------------------------------- the pure functions on their own
\* the scores _score_recipe can give
ProbeScores ==
    { t + d + i + st + k :
        t \in {0, TitleWeight}, d \in {0, DescriptionWeight},
        i \in {0, IngredientsWeight}, st \in {0, StepsWeight},
        k \in {0, CaloriesWeight} }

BetterInputs ==
    [ new_score : ProbeScores, new_complete : BOOLEAN,
      existing : [is_complete : BOOLEAN, quality_score : ProbeScores] ]

BetterInit ==
    \E a \in BetterInputs :
        InitWith("pure", [fn |-> "_is_better", args |-> a, out |-> NoneV])

\* evaluate _is_better on the drawn arguments
Apply_is_better ==
    /\ probe.fn = "_is_better"
    /\ IsNone(probe.out)
    /\ probe' = [probe EXCEPT !.out =
            Some(_is_better(probe.args.new_score, probe.args.new_complete,
                            probe.args.existing))]
    /\ UNCHANGED <<service, mode, store, now, advances, nextId, call, last, prev, completeReturned,
                   request>>

BetterNext == Apply_is_better

BetterSpec == BetterInit /\ [][BetterNext]_vars

\* the clock reading _should_reimport is evaluated at
ProbeClock == (FRESH_DAYS + 10) * TicksPerDay

\* wall-clock readings 0, 29, 30 and 31 days before the clock, and one tick
\* to either side of the 30 days
ProbeWalls ==
    { ProbeClock - a :
        a \in { 0, (FRESH_DAYS - 1) * TicksPerDay, FreshWindow - 1, FreshWindow,
                FreshWindow + 1, (FRESH_DAYS + 1) * TicksPerDay } }

\* naive, UTC, and one tick east and west of UTC
ProbeZones == {NoneV, Some(0), Some(1), Some(-1)}

ProbeEntries ==
    [ is_complete : BOOLEAN,
      quality_score : {0, 65, QUALITY_MIN_SCORE - 1, QUALITY_MIN_SCORE, 100},
      last_fetched_at : {NoneV} \cup {Some(dt) : dt \in [wall : ProbeWalls, tz : ProbeZones]} ]

ReimportInit ==
    \E e \in {NoneV} \cup {Some(r) : r \in ProbeEntries} :
        InitWith("pure", [fn |-> "_should_reimport",
                          args |-> [existing |-> e, clock |-> ProbeClock],
                          out |-> NoneV])

\* evaluate _should_reimport on the drawn entry
Apply_should_reimport ==
    /\ probe.fn = "_should_reimport"
    /\ IsNone(probe.out)
    /\ probe' = [probe EXCEPT !.out =
            Some(_should_reimport(probe.args.existing, probe.args.clock))]
    /\ UNCHANGED <<service, mode, store, now, advances, nextId, call, last, prev, completeReturned,
                   request>>

ReimportNext == Apply_should_reimport

ReimportSpec == ReimportInit /\ [][ReimportNext]_vars

\* -------------------------------------------------- _score_recipe on its own
\* absent, empty, blank and filled values of the payload's fields
ProbeTitles == { NoneV, Some(<<>>), Some(<<" ">>), Some(<<"A">>) }
ProbeDescriptions == { NoneV, Some(<<>>), Some(<<"\t"," ">>), Some(<<"d">>) }
ProbeCalories == { NoneV, Some(<<>>), Some(<<"0">>), Some(<<"2","5","0"," ","k","c","a","l">>) }
ProbeIngredientLists == { NoneV, Some(<<>>), Some(<<IngredientEgg>>) }
ProbeStepLists == { NoneV, Some(<<>>), Some(<<StepMix>>), Some(<<StepMix, StepMix>>) }
ProbePayloads ==
    [ title : ProbeTitles, description : ProbeDescriptions,
      nutritionCalories : ProbeCalories, ingredients : ProbeIngredientLists,
      instructions : ProbeStepLists ]

ScoreInit ==
    \E recipe_data \in ProbePayloads :
        InitWith("pure", [fn |-> "_score_recipe", args |-> recipe_data, out |-> NoneV])

\* evaluate _score_recipe on the payload, and on the payload given a step list
Apply_score_recipe ==
    /\ probe.fn = "_score_recipe"
    /\ IsNone(probe.out)
    /\ probe' = [probe EXCEPT !.out =
            Some([ result |-> _score_recipe(probe.args),
                   with_steps |-> _score_recipe([probe.args EXCEPT
                                      !.instructions = Some(<<StepMix>>)]) ])]
    /\ UNCHANGED <<service, mode, store, now, advances, nextId, call, last, prev, completeReturned,
                   request>>

ScoreNext == Apply_score_recipe

ScoreSpec == ScoreInit /\ [][ScoreNext]_vars

\* ------------------------------------------------ detect_language on its own
TitleMehl == Some(<<"2","5","0"," ","g"," ","M","e","h","l"," ","u","n","d"," ","2"," ","E","i","e","r">>)
TitlePreheat == Some(<<"p","r","e","h","e","a","t"," ","t","h","e"," ","o","v","e","n"," ","a","n","d"," ","w","h","i","s","k"," ","t","h","e"," ","e","g","g","s">>)
\* titles: absent, empty, blank, the two example sentences, a German word at
\* the end, an umlaut against one and against two English words, one word of
\* each language, a German word at the start
LangTitles ==
    { NoneV, Some(<<>>), Some(<<" ">>), TitleMehl, TitlePreheat,
      Some(<<"M","e","h","l"," ","u","n","d">>),
      Some(<<"Ö","l"," ","a","n","d"," ","s","a","l","t">>),
      Some(<<"Ö","l"," ","w","i","t","h"," ","s","a","l","t"," ","a","n","d"," ","p","e","p","p","e","r">>),
      Some(<<"B","r","o","t"," ","m","i","t"," ","b","u","t","t","e","r"," ","a","n","d"," ","j","a","m">>),
      Some(<<"D","i","e"," ","P","f","a","n","n","e">>) }
LangDescriptions ==
    { NoneV, Some(<<"\t">>), Some(<<"Z","u","t","a","t","e","n",":"," "," ","2"," ","E","L"," ","Z","u","c","k","e","r">>) }
IngredientMehl == [line |-> Some(<<"2","5","0"," ","g"," ","M","e","h","l">>), name |-> Some(<<"M","e","h","l">>)]
IngredientCups == [line |-> Some(<<"2"," ","c","u","p","s"," ","f","l","o","u","r">>), name |-> Some(<<"f","l","o","u","r"," ","2"," ","c","u","p","s">>)]
LangIngredientLists ==
    { NoneV, Some(<<IngredientEgg>>), Some(<<IngredientEgg, IngredientEgg>>),
      Some(<<IngredientMehl, IngredientCups>>) }
StepOfen == [text |-> Some(<<"I","m"," ","O","f","e","n"," ","2","0"," ","M","i","n","u","t","e","n"," ","b","a","c","k","e","n">>)]
StepBake == [text |-> Some(<<"T","h","e","n"," ","b","a","k","e","\n","a","n","d"," ","s","e","r","v","e">>)]
LangStepLists == { NoneV, Some(<<StepMix>>), Some(<<StepOfen>>), Some(<<StepMix, StepBake>>) }
LangPayloads ==
    [ title : LangTitles, description : LangDescriptions, nutritionCalories : {NoneV},
      ingredients : LangIngredientLists, instructions : LangStepLists ]

LangInit ==
    \E recipe_data \in LangPayloads :
        InitWith("pure", [fn |-> "detect_language", args |-> recipe_data, out |-> NoneV])

Apply_detect_language ==
    /\ probe.fn = "detect_language"
    /\ IsNone(probe.out)
    /\ probe' = [probe EXCEPT !.out =
            Some([ text |-> LanguageText(probe.args),
                   language_code |-> detect_language(probe.args) ])]
    /\ UNCHANGED <<service, mode, store, now, advances, nextId, call, last, prev, completeReturned,
                   request>>

LangNext == Apply_detect_language

LangSpec == LangInit /\ [][LangNext]_vars

\* ------------------------------------- detect_language on reordered words
OrderWords ==
    { <<"m","e","h","l">>,
      <<"u","n","d">>,
      <<"e","i","e","r">>,
      <<"a","n","d">>,
      <<"t","h","e">>,
      <<"ö","l">> }
OrderLen == 3
\* the sequences of OrderLen different words
WordOrders ==
    { w \in [1..OrderLen -> OrderWords] : \A i, j \in 1..OrderLen : i # j => w[i] # w[j] }

\* the rearrangements of a sequence of words
Rearranged(w) ==
    { [i \in 1..Len(w) |-> w[p[i]]] : p \in { q \in [1..Len(w) -> 1..Len(w)] :
                                                 \A i, j \in 1..Len(w) : i # j => q[i] # q[j] } }

\* the words as text, None for no words
WordsAsText(w) == IF w = <<>> THEN NoneV ELSE Some(JoinWith(<<" ">>, w))

\* a payload whose title holds the first k words and whose description holds
\* the others
WordPayload(w, k) ==
    [ title |-> WordsAsText(SubSeq(w, 1, k)), description |-> WordsAsText(SubSeq(w, k + 1, Len(w))),
      nutritionCalories |-> NoneV, ingredients |-> NoneV, instructions |-> NoneV ]

OrderInit ==
    \E w \in WordOrders : \E v \in Rearranged(w) : \E k \in {0, 1, Len(w)} :
        InitWith("pure", [fn |-> "detect_language_orders",
                          args |-> <<WordPayload(w, k), WordPayload(v, k)>>,
                          out |-> NoneV])

\* detect the language of both payloads
Apply_detect_language_orders ==
    /\ probe.fn = "detect_language_orders"
    /\ IsNone(probe.out)
    /\ probe' = [probe EXCEPT !.out =
            Some([ first  |-> detect_language(probe.args[1]),
                   second |-> detect_language(probe.args[2]) ])]
    /\ UNCHANGED <<service, mode, store, now, advances, nextId, call, last, prev, completeReturned,
                   request>>

OrderNext == Apply_detect_language_orders

OrderSpec == OrderInit /\ [][OrderNext]_vars

\* ------------------------------------------- _build_canonical_hash on its own
\* str.upper() on the letters of the probe texts
UpperChar(c) ==
    IF \E i \in 1..Len(LowerChars) : LowerChars[i] = c
    THEN UpperChars[CHOOSE i \in 1..Len(LowerChars) : LowerChars[i] = c]
    ELSE c

RECURSIVE Widen(_)
\* every blank of the text made a run of whitespace
Widen(s) ==
    IF s = <<>> THEN <<>>
    ELSE IF IsSpace(Head(s)) THEN <<" ", "\t", "\n">> \o Widen(Tail(s))
    ELSE <<Head(s)>> \o Widen(Tail(s))

VaryKinds == {"same", "upper", "padded", "widened", "all"}

\* the text in another letter case or with other whitespace
Vary(kind, s) ==
    CASE kind = "same"    -> s
      [] kind = "upper"   -> [i \in 1..Len(s) |-> UpperChar(s[i])]
      [] kind = "padded"  -> <<" ", "\n">> \o s \o <<"\t">>
      [] kind = "widened" -> Widen(s)
      [] kind = "all"     -> <<" ">> \o Widen([i \in 1..Len(s) |-> UpperChar(s[i])]) \o <<" ", " ">>

VaryOpt(kind, o) == IF IsNone(o) THEN o ELSE Some(Vary(kind, Val(o)))

HashTitles == { NoneV, Some(<<>>), Some(<<"E","g","g"," ","S","a","l","a","d">>) }
HashIngredientA == [line |-> Some(<<"1"," ","E","g","g">>), name |-> Some(<<"E","g","g">>)]
HashIngredientB == [line |-> Some(<<"2"," ","t","b","s","p"," ","o","l","i","v","e"," ","O","i","l">>), name |-> NoneV]
HashIngredientLists ==
    { NoneV, Some(<<HashIngredientA>>), Some(<<HashIngredientA, HashIngredientB>>),
      Some(<<HashIngredientB, HashIngredientA>>) }
HashStepA == [text |-> Some(<<"B","o","i","l"," ","t","h","e"," ","e","g","g">>)]
HashStepB == [text |-> Some(<<"S","e","r","v","e">>)]
HashStepLists ==
    { NoneV, Some(<<>>), Some(<<HashStepA>>), Some(<<HashStepA, HashStepB>>),
      Some(<<HashStepB, HashStepA>>) }
HashPayloads ==
    [ title : HashTitles, description : {NoneV}, nutritionCalories : {NoneV},
      ingredients : HashIngredientLists, instructions : HashStepLists ]

\* the payload with its title, its ingredient lines and its step texts varied
VaryPayload(recipe_data, kt, ki, ks) ==
    [ recipe_data EXCEPT
        !.title = VaryOpt(kt, @),
        !.ingredients = IF IsNone(@) THEN @
                        ELSE Some([i \in 1..Len(Val(@)) |->
                                     [Val(@)[i] EXCEPT !.line = VaryOpt(ki, @)]]),
        !.instructions = IF IsNone(@) THEN @
                         ELSE Some([i \in 1..Len(Val(@)) |->
                                      [Val(@)[i] EXCEPT !.text = VaryOpt(ks, @)]]) ]

\* list(reversed(items))
Reversed(items) == [i \in 1..Len(items) |-> items[Len(items) + 1 - i]]
ReversedOpt(o) == IF IsNone(o) THEN o ELSE Some(Reversed(Val(o)))

HashInit ==
    \E recipe_data \in HashPayloads : \E kt, ki, ks \in VaryKinds :
        InitWith("pure", [fn |-> "_build_canonical_hash",
                          args |-> [ payload |-> recipe_data,
                                     variant |-> VaryPayload(recipe_data, kt, ki, ks) ],
                          out |-> NoneV])

\* hash the payload, its variant, and the variant with its ingredients and
\* with its steps in reverse order
Apply_build_canonical_hash ==
    /\ probe.fn = "_build_canonical_hash"
    /\ IsNone(probe.out)
    /\ probe' = [probe EXCEPT !.out =
            Some([ payload |-> _build_canonical_hash(probe.args.payload),
                   variant |-> _build_canonical_hash(probe.args.variant),
                   ingredients_reversed |-> _build_canonical_hash(
                       [probe.args.variant EXCEPT !.ingredients = ReversedOpt(@)]),
                   steps_reversed |-> _build_canonical_hash(
                       [probe.args.variant EXCEPT !.instructions = ReversedOpt(@)]) ])]
    /\ UNCHANGED <<service, mode, store, now, advances, nextId, call, last, prev, completeReturned,
                   request>>

HashNext == Apply_build_canonical_hash

HashSpec == HashInit /\ [][HashNext]_vars

\* -------------------------------------------------- normalize_url on its own
\* the URLs normalize_url is evaluated on, put together from their parts
ProbeSchemes == { <<"h","t","t","p","s">>, <<"H","T","T","P","S">>, <<"h","t","t","p">> }
ProbeHosts == { <<"e","x",".","c","o","m">>, <<"E","X",".","c","o","m">> }
ProbePaths == { <<>>, <<"/","r">>, <<"/","r","/">>, <<"/","r",";">>, <<"/","r",";","/">> }
ProbeParams ==
    { <<"i","d","=","5">>,
      <<"u","t","m","_","s","o","u","r","c","e","=","x">>,
      <<"F","B","C","L","I","D","=","1">> }
\* the query: at most two parameters
ProbeQueries ==
    {<<>>} \cup {<<a>> : a \in ProbeParams} \cup {<<a, b>> : a \in ProbeParams, b \in ProbeParams}
ProbeFragments == { <<>>, <<"t","o","p">> }
ProbeUrlParts ==
    [ scheme : ProbeSchemes, host : ProbeHosts, path : ProbePaths,
      query : ProbeQueries, fragment : ProbeFragments ]

RECURSIVE JoinAmp(_)
\* the parameters joined with &
JoinAmp(params) ==
    IF params = <<>> THEN <<>>
    ELSE Head(params) \o (IF Len(params) > 1 THEN <<"&">> \o JoinAmp(Tail(params)) ELSE <<>>)

\* the URL text scheme://host/path?query#fragment
ComposeUrl(a) ==
    a.scheme \o <<":","/","/">> \o a.host \o a.path
    \o (IF a.query # <<>> THEN <<"?">> \o JoinAmp(a.query) ELSE <<>>)
    \o (IF a.fragment # <<>> THEN <<"#">> \o a.fragment ELSE <<>>)

\* the key of a parameter k=v
ParamKey(kv) == SubSeq(kv, 1, Find(kv, "=", 1) - 1)

\* a tracking parameter as section 4.2 names them: a click id or any utm_* key
SpecTracking(kv) ==
    \/ Lower(ParamKey(kv)) \in { <<"f","b","c","l","i","d">>, <<"g","c","l","i","d">>,
                                 <<"i","g","s","h","i","d">> }
    \/ StartsWith(Lower(ParamKey(kv)), <<"u","t","m","_">>)

NotSpecTracking(kv) == ~SpecTracking(kv)

\* the URLs that differ from a in one of the respects normalisation ignores:
\* case of the scheme, case of the host, a trailing slash of the path, the
\* fragment, the tracking parameters
Variants(a) ==
    {[a EXCEPT !.scheme = x] : x \in {y \in ProbeSchemes : Lower(y) = Lower(a.scheme)}}
    \cup {[a EXCEPT !.host = x] : x \in {y \in ProbeHosts : Lower(y) = Lower(a.host)}}
    \cup {[a EXCEPT !.path = x] :
             x \in {y \in ProbePaths : y = a.path \o <<"/">> \/ a.path = y \o <<"/">>}}
    \cup {[a EXCEPT !.fragment = x] : x \in ProbeFragments}
    \cup {[a EXCEPT !.query = x] :
             x \in {y \in ProbeQueries :
                      SelectSeq(y, NotSpecTracking) = SelectSeq(a.query, NotSpecTracking)}}

NormInit ==
    \E a \in ProbeUrlParts : \E b \in Variants(a) :
        InitWith("pure", [fn |-> "normalize_url", args |-> [url |-> a, other |-> b],
                          out |-> NoneV])

\* evaluate normalize_url on the URL, on its own result, and on the variant
Apply_normalize_url ==
    /\ probe.fn = "normalize_url"
    /\ IsNone(probe.out)
    /\ probe' = [probe EXCEPT !.out =
            Some([ once  |-> normalize_url(ComposeUrl(probe.args.url)),
                   twice |-> normalize_url(normalize_url(ComposeUrl(probe.args.url))),
                   other |-> normalize_url(ComposeUrl(probe.args.other)) ])]
    /\ UNCHANGED <<service, mode, store, now, advances, nextId, call, last, prev, completeReturned,
                   request>>

NormNext == Apply_normalize_url

NormSpec == NormInit /\ [][NormNext]_vars

\* ------------------------------------------- one recipe under two addresses
\* https://ex.com/s: a second address, with a cache key of its own
UrlOther ==
    <<"h","t","t","p","s",":","/","/","e","x",".","c","o","m","/","s">>
GroupUrls == {UrlPlain, UrlOther}

\* the recipe of PayloadFull as another site prints it: other letter case and
\* spacing, no description, a calorie value; score 90, complete
PayloadFullReprint ==
    [ title |-> Some(<<"a"," ">>), description |-> NoneV,
      nutritionCalories |-> Some(<<"9">>),
      ingredients |-> Some(<< [line |-> NoneV, name |-> Some(<<"1"," "," ","E","G","G">>)] >>),
      instructions |-> Some(<< [text |-> Some(<<"M","i","x">>)] >>) ]
GroupResults == {PayloadTitleOnly, PayloadFull, PayloadFullReprint}

GroupInit == InitWith("group", NoProbe)

GroupNext ==
    \/ \E c \in Callers, url \in GroupUrls : Begin(c, url)
    \/ \E c \in Callers : FetchRaises(c)
    \/ \E c \in Callers, recipe_data \in GroupResults : FetchReturns(c, recipe_data)
    \/ \E d \in AdvanceSteps : Advance(d)

GroupSpec == GroupInit /\ [][GroupNext]_vars

\* ------------------------------------------------------ concurrent imports
\* callers run import_with_cache at the same time; each call reads the store
\* once (the SELECT of lines 199-204) and writes it once (a commit)
ConcUrls == {UrlPlain, UrlTracked}
ConcResults == {PayloadPartial, PayloadFull}

\* ------------------------------------- the history of one URL, in sequence
\* imports of one URL, one after another, each fetch a better recipe or not
ChainInit == InitWith("chain", NoProbe)

ChainNext ==
    \/ \E c \in Callers : Begin(c, UrlPlain)
    \/ \E c \in Callers : FetchRaises(c)
    \/ \E c \in Callers, recipe_data \in FetchResults : FetchReturns(c, recipe_data)
    \/ \E d \in AdvanceSteps : Advance(d)

ChainSpec == ChainInit /\ [][ChainNext]_vars

ConcInit == InitWith("conc", NoProbe)

ConcNext ==
    \/ \E c \in Callers, url \in ConcUrls : Begin(c, url)
    \/ \E c \in Callers : FetchRaises(c)
    \/ \E c \in Callers, recipe_data \in ConcResults : FetchReturns(c, recipe_data)
    \/ \E d \in AdvanceSteps : Advance(d)

ConcSpec == ConcInit /\ [][ConcNext]_vars

\* ------------------------------------------------- the URL import endpoints
\* POST /import/web, /import/tiktok, /import/instagram, /import/pinterest and
\* /import/youtube (api/routes.py)
Endpoints == {"web", "tiktok", "instagram", "pinterest", "youtube"}

\* the platform service function the handler of an endpoint calls
ServiceOf(endpoint) ==
    CASE endpoint = "web"       -> "web_service.import_web"
      [] endpoint = "tiktok"    -> "tiktok_service.import_tiktok"
      [] endpoint = "instagram" -> "instagram_service.import_instagram"
      [] endpoint = "pinterest" -> "pinterest_service.import_pinterest"
      [] endpoint = "youtube"   -> "youtube_service.import_youtube"
      [] endpoint = "scan"      -> "scan_service.import_scan"

\* the endpoints whose handler turns a ValueError into a 400 response
CatchesValueError == {"web", "pinterest", "youtube"}

\* the endpoint whose handler turns a RuntimeError into a 400 response
CatchesRuntimeError == {"scan"}

\* exceptions a platform service may raise
ServiceErrors == {"NotImplementedError", "ValueError"}

\* _has_import_data
_has_import_data(recipe_data) ==
    OrEmpty(recipe_data.ingredients) # <<>> \/ OrEmpty(recipe_data.instructions) # <<>>

\* a request arrives; the handler's first call is the platform service
RouteReceives(endpoint, url, user) ==
    /\ mode \in {"route", "sources"}
    /\ request.pc # "service"
    /\ request' = [ pc |-> "service", endpoint |-> endpoint, url |-> url, user |-> user,
                    calls |-> <<ServiceOf(endpoint)>>, status |-> 0, recipe |-> NoneV ]
    /\ service' = [NoService EXCEPT !.name = endpoint]
    /\ UNCHANGED <<mode, store, now, advances, nextId, call, last, prev, completeReturned,
                   probe>>

\* the service returns a payload: usage accounting when a user header came
\* with the request, then the response
RouteServiceReturns(recipe_data) ==
    /\ request.pc = "service"
    /\ LET has_data == _has_import_data(recipe_data)
           accounting ==
               IF request.user
               THEN (IF has_data THEN <<"_increment_import_usage">> ELSE <<>>)
                    \o <<"_log_usage_events">>
               ELSE <<>>
       IN request' = [request EXCEPT
               !.pc = "done",
               !.calls = request.calls \o <<"_has_import_data">> \o accounting,
               !.status = 200,
               !.recipe = Some(recipe_data)]
    /\ UNCHANGED <<service, mode, store, now, advances, nextId, call, last, prev, completeReturned,
                   probe>>

\* the service raises: 501, 400, or the exception leaves the handler (500)
RouteServiceRaises(exc) ==
    /\ request.pc = "service"
    /\ request' = [request EXCEPT
            !.pc = "done",
            !.status = IF exc = "NotImplementedError" THEN 501
                       ELSE IF exc = "ValueError" /\ request.endpoint \in CatchesValueError
                            THEN 400
                       ELSE IF exc = "RuntimeError" /\ request.endpoint \in CatchesRuntimeError
                            THEN 400
                       ELSE 500]
    /\ UNCHANGED <<service, mode, store, now, advances, nextId, call, last, prev, completeReturned,
                   probe>>

RouteInit == InitWith("route", NoProbe)

RouteNext ==
    \/ \E endpoint \in Endpoints, url \in GroupUrls, user \in BOOLEAN :
          RouteReceives(endpoint, url, user)
    \/ \E recipe_data \in FetchResults : RouteServiceReturns(recipe_data)
    \/ \E exc \in ServiceErrors : RouteServiceRaises(exc)

RouteSpec == RouteInit /\ [][RouteNext]_vars

\* --------------------------------------------------- the platform services
\* lists of strings as a page or a model gives them: none, a blank one, one
\* with text
TextEgg == <<"1"," ","e","g","g">>
TextMix == <<"m","i","x">>
ProbeLines == { <<>>, << <<" ">> >>, <<TextEgg>> }
ProbeSteps == { <<>>, << <<" ">> >>, <<TextMix>> }

\* clean_text(str(raw)) is not empty
NonBlank(raw) == clean_text(Some(raw)) # <<>>

\* import_utils.ingredients_from_strings
ingredients_from_strings(lines) ==
    Only({ [i \in 1..Len(kept) |-> [line |-> Some(clean_text(Some(kept[i]))), name |-> NoneV]]
           : kept \in {SelectSeq(lines, NonBlank)} })

\* import_utils.instructions_from_strings (the step numbers are left out)
instructions_from_strings(lines) ==
    Only({ [i \in 1..Len(kept) |-> [text |-> Some(clean_text(Some(kept[i])))]]
           : kept \in {SelectSeq(lines, NonBlank)} })

\* ImportedRecipe.model_dump_recipe(): the fields the cache and the handlers read
model_dump_recipe(recipe) ==
    [ title |-> recipe.title, description |-> NoneV, nutritionCalories |-> NoneV,
      ingredients |-> Some(recipe.ingredients), instructions |-> Some(recipe.instructions) ]

\* the service returns the payload
Returns(calls, structured, recipe) ==
    [ service EXCEPT !.pc = "returned", !.calls = @ \o calls,
                     !.structured = @ \o structured,
                     !.data = Some(model_dump_recipe(recipe)) ]

\* the service raises the exception
Raises(calls, structured, exc) ==
    [ service EXCEPT !.pc = "raised", !.calls = @ \o calls,
                     !.structured = @ \o structured, !.error = exc ]

\* the handler of the source has called its service, which has not run yet
ServiceCalled(source) ==
    /\ mode = "sources"
    /\ request.pc = "service"
    /\ request.endpoint = source
    /\ service.pc = "idle"

\* ------------------------------------------------------------- import_web
\* schema.org Recipe nodes found in the page's JSON-LD blocks
ProbeNodes ==
    [ name : {NoneV, Some(<<"A">>)}, recipeIngredient : ProbeLines,
      recipeInstructions : ProbeSteps ]
MaxNodes == 2
ProbeNodeLists == UNION { [1..n -> ProbeNodes] : n \in 0..MaxNodes }

\* what the model call of _openai_from_page gives: None when it raises
ProbeModelRecipes ==
    { NoneV } \cup { Some(r) : r \in [ title : {NoneV, Some(<<"A">>)},
                                        ingredients : ProbeLines, instructions : ProbeSteps ] }

\* the key pick_best_recipe sorts by
NodeMissing(node) ==
    (IF ~Truthy(node.name) THEN 1 ELSE 0)
    + (IF node.recipeIngredient = <<>> THEN 1 ELSE 0)
    + (IF node.recipeInstructions = <<>> THEN 1 ELSE 0)

\* import_utils.pick_best_recipe: sorted(nodes, key=score)[0]
pick_best_recipe(nodes) ==
    IF nodes = <<>> THEN NoneV
    ELSE Some(nodes[CHOOSE i \in 1..Len(nodes) :
                      \A j \in 1..Len(nodes) :
                          \/ NodeMissing(nodes[i]) < NodeMissing(nodes[j])
                          \/ NodeMissing(nodes[i]) = NodeMissing(nodes[j]) /\ i <= j])

Untitled == Some(<<"U","n","t","i","t","l","e","d"," ","R","e","c","i","p","e">>)

\* import_web._schema_to_recipe
_schema_to_recipe(node) ==
    [ title |-> IF clean_text(node.name) # <<>> THEN Some(clean_text(node.name)) ELSE Untitled,
      extracted_via |-> "schema_org",
      ingredients |-> ingredients_from_strings(node.recipeIngredient),
      instructions |-> instructions_from_strings(node.recipeInstructions) ]

\* import_web._openai_from_page, given what the model call returned
_openai_from_page(llm_recipe, title_tag) ==
    [ title |-> IF Truthy(llm_recipe.title) THEN llm_recipe.title
                ELSE IF Truthy(title_tag) THEN title_tag ELSE Untitled,
      extracted_via |-> "openai_from_body",
      ingredients |-> ingredients_from_strings(llm_recipe.ingredients),
      instructions |-> instructions_from_strings(llm_recipe.instructions) ]

\* import_web that turns to the model when the node gave nothing
import_web_model_on_empty(schema_nodes, title_tag, llm) ==
    /\ ServiceCalled("web")
    /\ \E best_node \in {pick_best_recipe(schema_nodes)} :
         \E use_model \in {IsNone(best_node)
                           \/ ( /\ _schema_to_recipe(Val(best_node)).ingredients = <<>>
                                /\ _schema_to_recipe(Val(best_node)).instructions = <<>> )} :
           service' =
              [ (IF ~use_model
                 THEN Returns(<<"fetch_html", "_schema_to_recipe">>, <<Val(best_node)>>,
                              _schema_to_recipe(Val(best_node)))
                 ELSE IF IsNone(llm)
                 THEN Raises(<<"fetch_html", "_openai_from_page">>, <<>>, "ValueError")
                 ELSE IF /\ _openai_from_page(Val(llm), title_tag).ingredients = <<>>
                         /\ _openai_from_page(Val(llm), title_tag).instructions = <<>>
                 THEN Raises(<<"fetch_html", "_openai_from_page">>, <<Val(llm)>>, "ValueError")
                 ELSE Returns(<<"fetch_html", "_openai_from_page">>, <<Val(llm)>>,
                              _openai_from_page(Val(llm), title_tag)))
                EXCEPT !.page = schema_nodes ]
    /\ UNCHANGED <<mode, store, now, advances, nextId, call, last, prev, completeReturned,
                   probe, request>>

\* import_web: the page is fetched, the best recipe node is mapped, or without
\* a node the model is asked; a recipe without ingredients and steps is an error
import_web(schema_nodes, title_tag, llm) ==
    /\ ServiceCalled("web")
    /\ \E best_node \in {pick_best_recipe(schema_nodes)} :
         \E recipe \in { IF ~IsNone(best_node) THEN Some(_schema_to_recipe(Val(best_node)))
                         ELSE IF IsNone(llm) THEN NoneV
                         ELSE Some(_openai_from_page(Val(llm), title_tag)) } :
           \E calls \in { <<"fetch_html">> \o (IF ~IsNone(best_node) THEN <<"_schema_to_recipe">>
                                               ELSE <<"_openai_from_page">>) },
              structured \in { IF ~IsNone(best_node) THEN <<Val(best_node)>>
                               ELSE IF IsNone(llm) THEN <<>> ELSE <<Val(llm)>> } :
             service' =
                [ (IF IsNone(recipe) THEN Raises(calls, structured, "ValueError")
                   ELSE IF Val(recipe).ingredients = <<>> /\ Val(recipe).instructions = <<>>
                   THEN Raises(calls, structured, "ValueError")
                   ELSE Returns(calls, structured, Val(recipe)))
                  EXCEPT !.page = schema_nodes ]
    /\ UNCHANGED <<mode, store, now, advances, nextId, call, last, prev, completeReturned,
                   probe, request>>

\* fetch_html raises: the page could not be fetched
FetchHtmlRaises(source) ==
    /\ ServiceCalled(source)
    /\ source \in {"web", "pinterest"}
    /\ service' = Raises(<<"fetch_html">>, <<>>, "HTTPError")
    /\ UNCHANGED <<mode, store, now, advances, nextId, call, last, prev, completeReturned,
                   probe, request>>

\* ---------------------------------------- structuring from signals
\* ingredient items as the structuring call gives them: none, a blank one,
\* one with a name and an amount
ItemBlank == [name |-> <<" ">>, amount |-> NoneV]
ItemEgg == [name |-> <<"e","g","g">>, amount |-> Some(<<"1">>)]
ProbeItems == { <<>>, <<ItemBlank>>, <<ItemEgg>> }

\* what a structuring call (_openai_recipe_from_signals and the like) gives
ProbeStructured == [ title : {Some(<<"A">>)}, ingredients : ProbeItems, steps : ProbeSteps ]

\* the outcome of a structuring call: None when the call raises
ProbeStructuring == { NoneV } \cup { Some(r) : r \in ProbeStructured }

\* clean_text(f"{item.amount or ''} {item.name}".strip())
BaseLine(item) == clean_text(Some(Strip(OrEmpty(item.amount) \o <<" ">> \o item.name)))

HasBaseLine(item) == BaseLine(item) # <<>>

\* _convert_recipe of import_tiktok, import_instagram, import_youtube and
\* import_scan: items without a line are dropped, blank steps are dropped
_convert_recipe(recipe) ==
    Only({ [ title |-> recipe.title,
             extracted_via |-> "signals",
             ingredients |-> [i \in 1..Len(kept) |->
                                [line |-> Some(BaseLine(kept[i])), name |-> Some(kept[i].name)]],
             instructions |-> instructions_from_strings(recipe.steps) ]
           : kept \in {SelectSeq(recipe.ingredients, HasBaseLine)} })

\* ---------------------------------------------------------- import_tiktok
\* import_tiktok: download, thumbnail, audio, transcript, one structuring
\* call, conversion; whatever the structuring gave is returned
import_tiktok(download_ok, llm) ==
    /\ ServiceCalled("tiktok")
    /\ service' =
          IF ~download_ok
          THEN Raises(<<"_download_tiktok_video">>, <<>>, "RuntimeError")
          ELSE IF IsNone(llm)
          THEN Raises(<<"_download_tiktok_video", "_transcribe_audio",
                        "_openai_recipe_from_signals">>, <<>>, "Exception")
          ELSE Returns(<<"_download_tiktok_video", "_transcribe_audio",
                         "_openai_recipe_from_signals">>, <<Val(llm)>>,
                       _convert_recipe(Val(llm)))
    /\ UNCHANGED <<mode, store, now, advances, nextId, call, last, prev, completeReturned,
                   probe, request>>

\* ------------------------------------------------------- import_instagram
\* import_instagram._needs_ocr
_needs_ocr(recipe) == Len(recipe.ingredients) = 0 \/ Len(recipe.steps) = 0

\* import_instagram: one structuring call from the signals; when _needs_ocr
\* and a screenshot was taken, OCR of the screenshot and, with OCR text, a
\* second structuring call whose result is kept when it has more items
import_instagram(llm, screenshot_path, ocr_text, llm_ocr) ==
    /\ ServiceCalled("instagram")
    /\ service' =
          IF IsNone(llm)
          THEN Raises(<<"_playwright_rescue", "_openai_recipe_from_signals">>, <<>>,
                      "Exception")
          ELSE IF ~(_needs_ocr(Val(llm)) /\ screenshot_path)
          THEN Returns(<<"_playwright_rescue", "_openai_recipe_from_signals">>,
                       <<Val(llm)>>, _convert_recipe(Val(llm)))
          ELSE IF ~ocr_text
          THEN Returns(<<"_playwright_rescue", "_openai_recipe_from_signals",
                         "_ocr_from_image">>, <<Val(llm)>>, _convert_recipe(Val(llm)))
          ELSE IF IsNone(llm_ocr)
          THEN Raises(<<"_playwright_rescue", "_openai_recipe_from_signals",
                        "_ocr_from_image", "_openai_recipe_from_signals">>,
                      <<Val(llm)>>, "Exception")
          ELSE Returns(<<"_playwright_rescue", "_openai_recipe_from_signals",
                         "_ocr_from_image", "_openai_recipe_from_signals">>,
                       <<Val(llm), Val(llm_ocr)>>,
                       _convert_recipe(
                           IF Len(Val(llm_ocr).ingredients) + Len(Val(llm_ocr).steps)
                              > Len(Val(llm).ingredients) + Len(Val(llm).steps)
                           THEN Val(llm_ocr) ELSE Val(llm)))
    /\ UNCHANGED <<mode, store, now, advances, nextId, call, last, prev, completeReturned,
                   probe, request>>

\* ------------------------------------------------------------ import_scan
\* the handler of POST /import/scan: without an upload that has content the
\* answer is 400, otherwise import_scan is called with the images
ScanReceives(images, user) ==
    /\ mode = "sources"
    /\ request.pc # "service"
    /\ request' = IF images = 0
                  THEN [ pc |-> "done", endpoint |-> "scan", url |-> UrlPlain, user |-> user,
                         calls |-> <<>>, status |-> 400, recipe |-> NoneV ]
                  ELSE [ pc |-> "service", endpoint |-> "scan", url |-> UrlPlain,
                         user |-> user, calls |-> <<ServiceOf("scan")>>, status |-> 0,
                         recipe |-> NoneV ]
    /\ service' = [NoService EXCEPT !.name = "scan"]
    /\ UNCHANGED <<mode, store, now, advances, nextId, call, last, prev, completeReturned,
                   probe>>

\* import_scan: text recognition on the images, then the structuring call on
\* the joined text, on the fallback model when the first call raises; blank
\* text makes the structuring raise RuntimeError
import_scan(vision_ok, has_text, llm, fallback_configured, llm_fallback) ==
    /\ ServiceCalled("scan")
    /\ service' =
          IF ~vision_ok
          THEN Raises(<<"_call_google_vision">>, <<>>, "RuntimeError")
          ELSE IF has_text /\ ~IsNone(llm)
          THEN Returns(<<"_call_google_vision", "_openai_recipe_from_text">>,
                       <<Val(llm)>>, _convert_recipe(Val(llm)))
          ELSE IF ~fallback_configured
          THEN Raises(<<"_call_google_vision", "_openai_recipe_from_text">>, <<>>,
                      IF has_text THEN "Exception" ELSE "RuntimeError")
          ELSE IF has_text /\ ~IsNone(llm_fallback)
          THEN Returns(<<"_call_google_vision", "_openai_recipe_from_text",
                         "_openai_recipe_from_text">>,
                       <<Val(llm_fallback)>>, _convert_recipe(Val(llm_fallback)))
          ELSE Raises(<<"_call_google_vision", "_openai_recipe_from_text",
                        "_openai_recipe_from_text">>, <<>>,
                      IF has_text THEN "Exception" ELSE "RuntimeError")
    /\ UNCHANGED <<mode, store, now, advances, nextId, call, last, prev, completeReturned,
                   probe, request>>

\* --------------------------------------------------------- import_youtube
\* what _openai_build_recipe gives: None when the call raises
ProbeBuilt ==
    { NoneV,
      Some([title |-> Some(<<"A">>), ingredients |-> <<>>, steps |-> <<>>]),
      Some([title |-> Some(<<"A">>), ingredients |-> <<ItemEgg>>, steps |-> <<TextMix>>]) }

\* how many steps _openai_extract_steps_only finds: None when the call raises
ProbeStepCounts == { NoneV, Some(0), Some(4), Some(6) }

\* what happens to one audio chunk: ffmpeg fails to cut it, the transcription
\* call raises, the transcript is empty, the transcript has text
ChunkOutcomes == {"trim_error", "transcribe_error", "empty", "text"}

\* import_youtube up to the point where audio chunks are transcribed or the
\* recipe is built: a long video with a thin description and no ingredients
\* in it is refused; a description with ingredients and steps goes to the
\* structuring call at once; with ingredients only, subtitles are searched
\* for steps and audio is transcribed when fewer than 4 steps came of it;
\* otherwise subtitles, or without subtitles audio, are the transcript
import_youtube(long_and_thin, ing_ok, steps_ok, subs_text, subs_steps, audio_ok) ==
    /\ ServiceCalled("youtube")
    /\ service' =
          IF long_and_thin /\ ~ing_ok
          THEN Raises(<<"_yt_dlp_get_info">>, <<>>, "ValueError")
          ELSE IF ing_ok /\ steps_ok
          THEN [service EXCEPT !.pc = "running", !.calls = <<"_yt_dlp_get_info">>,
                               !.audio = [NoAudio EXCEPT !.stage = "build",
                                                         !.branch = "description_only"]]
          ELSE IF ing_ok /\ subs_text /\ IsNone(subs_steps)
          THEN Raises(<<"_yt_dlp_get_info", "_yt_dlp_fetch_subtitles_text",
                        "_openai_extract_steps_only">>, <<>>, "Exception")
          ELSE IF ing_ok /\ subs_text /\ Val(subs_steps) >= 4
          THEN [service EXCEPT !.pc = "running",
                               !.calls = <<"_yt_dlp_get_info", "_yt_dlp_fetch_subtitles_text",
                                           "_openai_extract_steps_only">>,
                               !.audio = [NoAudio EXCEPT !.stage = "build",
                                                         !.branch = "steps_rescue",
                                                         !.subs_text = TRUE,
                                                         !.steps_override = Val(subs_steps)]]
          ELSE IF ~ing_ok /\ subs_text
          THEN [service EXCEPT !.pc = "running",
                               !.calls = <<"_yt_dlp_get_info", "_yt_dlp_fetch_subtitles_text">>,
                               !.audio = [NoAudio EXCEPT !.stage = "build",
                                                         !.branch = "transcript",
                                                         !.subs_text = TRUE]]
          ELSE IF ~audio_ok
          THEN Raises(<<"_yt_dlp_get_info", "_yt_dlp_fetch_subtitles_text">>
                      \o (IF ing_ok /\ subs_text THEN <<"_openai_extract_steps_only">>
                          ELSE <<>>)
                      \o <<"_download_youtube_audio">>, <<>>, "RuntimeError")
          ELSE [service EXCEPT
                  !.pc = "running",
                  !.calls = <<"_yt_dlp_get_info", "_yt_dlp_fetch_subtitles_text">>
                            \o (IF ing_ok /\ subs_text THEN <<"_openai_extract_steps_only">>
                                ELSE <<>>)
                            \o <<"_download_youtube_audio">>,
                  !.audio = [NoAudio EXCEPT
                               !.stage = "chunks",
                               !.branch = IF ing_ok THEN "steps_rescue" ELSE "transcript",
                               !.subs_text = subs_text,
                               !.steps_override = IF ing_ok /\ subs_text THEN Val(subs_steps)
                                                  ELSE 0]]
    /\ UNCHANGED <<mode, store, now, advances, nextId, call, last, prev, completeReturned,
                   probe, request>>

\* the budget test at the head of the chunk loop
OverBudget(audio) == audio.used + WHISPER_CHUNKS[audio.chunk][2] > WHISPER_MAX_TOTAL_SECONDS

\* one pass of the loop over WHISPER_CHUNKS: stop when the next chunk would
\* exceed the budget; cut the chunk and transcribe it; a transcript with text
\* is collected and its seconds are added to `used` (and steps are extracted
\* again in the steps rescue, which stops at 6 steps); an exception skips to
\* the next chunk
WhisperChunk(outcome, steps_try) ==
    /\ mode = "sources"
    /\ service.name = "youtube"
    /\ service.pc = "running"
    /\ service.audio.stage = "chunks"
    /\ \E a \in {service.audio}, dur_s \in {WHISPER_CHUNKS[service.audio.chunk][2]} :
         \E transcribed \in {outcome \in {"transcribe_error", "empty", "text"}},
            rescued \in {outcome = "text" /\ a.branch = "steps_rescue" /\ ~IsNone(steps_try)} :
           service' =
              IF OverBudget(a)
              THEN [service EXCEPT !.audio.stage = "build"]
              ELSE [service EXCEPT
                      !.audio = [a EXCEPT
                         !.sent = IF transcribed THEN @ + dur_s ELSE @,
                         !.used = IF outcome = "text" THEN @ + dur_s ELSE @,
                         !.steps_override = IF rescued THEN Val(steps_try) ELSE @,
                         !.chunk = IF a.chunk < Len(WHISPER_CHUNKS) THEN @ + 1 ELSE @,
                         !.stage = IF \/ a.chunk = Len(WHISPER_CHUNKS)
                                      \/ rescued /\ Val(steps_try) >= 6
                                   THEN "build" ELSE @]]
    /\ UNCHANGED <<mode, store, now, advances, nextId, call, last, prev, completeReturned,
                   probe, request>>

\* _openai_build_recipe on the signals, then the conversion; whatever the
\* structuring gave is returned
YoutubeBuilds(llm) ==
    /\ mode = "sources"
    /\ service.name = "youtube"
    /\ service.pc = "running"
    /\ service.audio.stage = "build"
    /\ service' =
          IF IsNone(llm)
          THEN [ Raises(<<"_openai_build_recipe">>, <<>>, "Exception")
                 EXCEPT !.audio.stage = "done" ]
          ELSE [ Returns(<<"_openai_build_recipe">>, <<Val(llm)>>, _convert_recipe(Val(llm)))
                 EXCEPT !.audio.stage = "done" ]
    /\ UNCHANGED <<mode, store, now, advances, nextId, call, last, prev, completeReturned,
                   probe, request>>

\* ------------------------------------------------------- import_pinterest
ImportedRecipeTitle == Some(<<"I", "m", "p", "o", "r", "t", "e", "d", " ", "R", "e", "c", "i", "p", "e">>)

\* the recipe-like node of the pin page, if it has one
ProbePinNodes ==
    { NoneV }
    \cup { Some([name |-> Some(<<"A">>), recipeIngredient |-> l, recipeInstructions |-> s]) :
              l \in {<<>>, <<TextEgg>>}, s \in {<<>>, <<TextMix>>} }

\* what the model call on a page of the pin gives: None when it raises
ProbePinModelRecipes ==
    { NoneV,
      Some([title |-> NoneV, ingredients |-> <<>>, instructions |-> <<>>]),
      Some([title |-> Some(<<"A">>), ingredients |-> <<TextEgg>>,
            instructions |-> <<TextMix>>]) }

\* the pages a destination link can lead to: no link, a link that cannot be
\* fetched, a page with its recipe nodes
ProbeDestinations ==
    { [kind |-> "none", nodes |-> <<>>], [kind |-> "unreachable", nodes |-> <<>>] }
    \cup { [kind |-> "page", nodes |-> nodes] :
              nodes \in { <<>> } \cup { <<Val(n)>> : n \in ProbePinNodes \ {NoneV} } }

\* import_pinterest._pinterest_extract_recipe (a page without an og:title)
_pinterest_extract_recipe(pin_node) ==
    IF IsNone(pin_node)
    THEN [ title |-> ImportedRecipeTitle, extracted_via |-> "pinterest_dom_fallback",
           ingredients |-> <<>>, instructions |-> <<>> ]
    ELSE [ title |-> Some(clean_text(Val(pin_node).name)),
           extracted_via |-> "pinterest_pin_json",
           ingredients |-> ingredients_from_strings(Val(pin_node).recipeIngredient),
           instructions |-> instructions_from_strings(Val(pin_node).recipeInstructions) ]

\* the test of _enrich_pinterest_with_openai_if_needed
Thin(base_recipe) == Len(base_recipe.instructions) = 0 /\ Len(base_recipe.ingredients) < 5

\* import_pinterest._enrich_pinterest_with_openai_if_needed, given the
\* recipe of the model call on the pin page
_enrich_pinterest_with_openai_if_needed(base_recipe, ai_recipe) ==
    IF ~Thin(base_recipe) THEN base_recipe
    ELSE [ base_recipe EXCEPT
             !.ingredients = IF @ = <<>> THEN ai_recipe.ingredients ELSE @,
             !.instructions = IF @ = <<>> THEN ai_recipe.instructions ELSE @,
             !.extracted_via = "pinterest+openai_enrich" ]

\* import_pinterest._recipe_quality_score (no description, servings, times)
_recipe_quality_score(recipe) ==
    (IF Truthy(recipe.title) THEN 3 ELSE 0)
    + (IF Len(recipe.ingredients) < 50 THEN Len(recipe.ingredients) ELSE 50)
    + (IF Len(recipe.instructions) < 80 THEN Len(recipe.instructions) ELSE 80)

\* import_pinterest: the recipe of the pin page, enriched by a model call
\* when it is thin; with a destination page that can be fetched, the recipe
\* of that page (from its best node, else from a model call), and of the two
\* the one with the higher quality score, the destination first on a tie;
\* whatever was chosen is returned
import_pinterest(pin_node, pin_llm, destination, dest_llm) ==
    /\ ServiceCalled("pinterest")
    /\ \E base \in {_pinterest_extract_recipe(pin_node)},
          best_node \in {pick_best_recipe(destination.nodes)} :
         service' =
            IF Thin(base) /\ IsNone(pin_llm)
            THEN Raises(<<"fetch_html", "_pinterest_extract_recipe", "_openai_from_page">>,
                        <<>>, "Exception")
            ELSE
              \* the model call on the pin page is made only for a thin recipe
              LET pin_calls == <<"fetch_html", "_pinterest_extract_recipe">>
                               \o (IF Thin(base) THEN <<"_openai_from_page">> ELSE <<>>)
                  pin_structured == IF Thin(base) THEN <<Val(pin_llm)>> ELSE <<>>
                  pin_recipe == IF Thin(base)
                                THEN _enrich_pinterest_with_openai_if_needed(
                                         base, _openai_from_page(Val(pin_llm), NoneV))
                                ELSE base
              IN IF destination.kind = "none"
                 THEN Returns(pin_calls, pin_structured, pin_recipe)
                 ELSE IF destination.kind = "unreachable"
                 THEN Returns(pin_calls \o <<"fetch_html">>, pin_structured, pin_recipe)
                 ELSE IF IsNone(best_node) /\ IsNone(dest_llm)
                 THEN Raises(pin_calls \o <<"fetch_html", "_openai_from_page">>,
                             pin_structured, "Exception")
                 ELSE LET dest_recipe ==
                              IF ~IsNone(best_node)
                              THEN [_schema_to_recipe(Val(best_node)) EXCEPT
                                      !.extracted_via = "pinterest_destination_schema"]
                              ELSE [_openai_from_page(Val(dest_llm), NoneV) EXCEPT
                                      !.extracted_via = "pinterest_destination_openai"]
                      IN Returns(pin_calls \o <<"fetch_html">>
                                 \o (IF ~IsNone(best_node) THEN <<"_schema_to_recipe">>
                                     ELSE <<"_openai_from_page">>),
                                 pin_structured
                                 \o (IF ~IsNone(best_node) THEN <<Val(best_node)>>
                                     ELSE <<Val(dest_llm)>>),
                                 IF _recipe_quality_score(dest_recipe)
                                    >= _recipe_quality_score(pin_recipe)
                                 THEN dest_recipe ELSE pin_recipe)
    /\ UNCHANGED <<mode, store, now, advances, nextId, call, last, prev, completeReturned,
                   probe, request>>

\* ---------------------------------------------- the sources, end to end
Sources == Endpoints \cup {"scan"}

\* the service has returned or raised and the handler answers
HandlerAnswers ==
    /\ mode = "sources"
    /\ \/ service.pc = "returned" /\ RouteServiceReturns(Val(service.data))
       \/ service.pc = "raised" /\ RouteServiceRaises(service.error)

SourcesInit == InitWith("sources", NoProbe)

SourcesNext ==
    \/ \E source \in Endpoints, user \in BOOLEAN : RouteReceives(source, UrlPlain, user)
    \/ \E images \in 0..1, user \in BOOLEAN : ScanReceives(images, user)
    \/ \E schema_nodes \in ProbeNodeLists, title_tag \in {NoneV, Some(<<"T">>)},
          llm \in ProbeModelRecipes : import_web(schema_nodes, title_tag, llm)
    \/ \E source \in Sources : FetchHtmlRaises(source)
    \/ \E download_ok \in BOOLEAN, llm \in ProbeStructuring : import_tiktok(download_ok, llm)
    \/ \E llm \in ProbeStructuring, screenshot_path \in BOOLEAN, ocr_text \in BOOLEAN,
          llm_ocr \in ProbeStructuring :
          import_instagram(llm, screenshot_path, ocr_text, llm_ocr)
    \/ \E pin_node \in ProbePinNodes, pin_llm \in ProbePinModelRecipes,
          destination \in ProbeDestinations, dest_llm \in ProbePinModelRecipes :
          import_pinterest(pin_node, pin_llm, destination, dest_llm)
    \/ \E long_and_thin \in BOOLEAN, ing_ok \in BOOLEAN, steps_ok \in BOOLEAN,
          subs_text \in BOOLEAN, subs_steps \in ProbeStepCounts, audio_ok \in BOOLEAN :
          import_youtube(long_and_thin, ing_ok, steps_ok, subs_text, subs_steps, audio_ok)
    \/ \E outcome \in ChunkOutcomes, steps_try \in ProbeStepCounts :
          WhisperChunk(outcome, steps_try)
    \/ \E llm \in ProbeBuilt : YoutubeBuilds(llm)
    \/ \E vision_ok \in BOOLEAN, has_text \in BOOLEAN, llm \in ProbeStructuring,
          fallback_configured \in BOOLEAN, llm_fallback \in ProbeStructuring :
          import_scan(vision_ok, has_text, llm, fallback_configured, llm_fallback)
    \/ HandlerAnswers

SourcesSpec == SourcesInit /\ [][SourcesNext]_vars

TypeOK ==
    /\ mode \in {"seq", "conc", "group", "chain", "route", "sources", "pure"}
    /\ service.pc \in {"idle", "running", "returned", "raised"}
    /\ request.pc \in {"idle", "service", "done"}
    /\ \A r \in store : r.id \in 1..(nextId - 1)
    /\ \A c \in Callers : call[c].pc \in {"idle", "fetching", "done"}
    /\ \A c \in Callers : call[c].fetches \in 0..1

\* ---------------------------------------------------------- the properties
\* the freshness rule as section 4.4 states it: the entry may be reused
ReusableAt(r, clock) ==
    /\ r.is_complete
    /\ r.quality_score >= 70
    /\ ~IsNone(r.last_fetched_at)
    /\ clock - Val(r.last_fetched_at).wall <= 30 * TicksPerDay

\* a call of caller c completes in this step
Completes(c) == call[c].pc = "fetching" /\ call'[c].pc # "fetching"

RowIds(rows) == {r.id : r \in rows}
RowOf(rows, id) == CHOOSE r \in rows : r.id = id

\* C1: a call that finds a complete entry with quality_score >= 70 and a fetch
\* timestamp at most 30 days old returns that entry, never invokes the
\* fetcher and changes no row of the store.
C1_FreshHitServedFromCache ==
    [][\A c \in Callers, url \in RawUrls :
        ( /\ Begin(c, url)
          /\ \A e \in Lookup(normalize_url(url)) :
                ~IsNone(e) /\ ReusableAt(Val(e), now) )
        => ( /\ call'[c].pc = "idle"
             /\ store' = store
             /\ ~IsNone(last')
             /\ Val(last').kind = "cached"
             /\ Val(last').got.outcome = "none"
             /\ Val(last').began = now
             /\ Val(last').entry \in {Some(Val(e).id) : e \in Lookup(normalize_url(url))}
             /\ Val(last').entry = Val(last').found )]_vars

\* a call was served from an entry fetched exactly 30 days before
C1_Witness ==
    /\ ~IsNone(last)
    /\ Val(last).kind = "cached"
    /\ \E r \in store :
          /\ Some(r.id) = Val(last).entry
          /\ Val(last).began - Val(r.last_fetched_at).wall = 30 * TicksPerDay

\* two calls for the same URL completed one right after the other
TwoInARow ==
    /\ ~IsNone(prev)
    /\ ~IsNone(last)
    /\ Val(prev).key = Val(last).key

\* C2: of two imports of one URL in a row within the freshness window, the
\* first of which fetched a complete recipe, the second is served from the
\* cache and does not invoke the fetcher.
C2_SecondImportServedFromCache ==
    ( /\ TwoInARow
      /\ Val(prev).got.outcome = "ok"
      /\ Val(prev).complete
      /\ Val(last).began - Val(prev).began <= 30 * TicksPerDay )
    => ( /\ Val(last).got.outcome = "none"
         /\ Val(last).kind = "cached" )

\* C3: after a call has inserted a row N that supersedes entry E, the lookup
\* of the next call for the URL finds N.
C3_LookupFindsSupersedingRow ==
    ( /\ TwoInARow
      /\ Val(prev).kind = "inserted"
      /\ ~IsNone(Val(prev).found) )
    => Val(last).found = Val(prev).entry

\* C4: once a call for a URL has returned a complete recipe, every later call
\* for that URL that returns a recipe returns a complete one.
C4_CompleteNeverDisplaced ==
    [][( /\ last' # last
         /\ Val(last').key \in completeReturned
         /\ Val(last').kind # "raised" )
       => Val(last').complete]_vars

\* C5: when the first import of a URL fetched an incomplete recipe and the
\* second fetched a complete one, the second inserted a new row whose
\* supersedes_id is the id of the row the first import wrote.
C5_CompleteAfterIncompleteSupersedes ==
    ( /\ TwoInARow
      /\ IsNone(Val(prev).found)
      /\ Val(prev).got.outcome = "ok"
      /\ ~Val(prev).got.is_complete
      /\ Val(last).got.outcome = "ok"
      /\ Val(last).got.is_complete )
    => ( /\ Val(prev).kind = "inserted"
         /\ Val(last).kind = "inserted"
         /\ Val(last).entry # Val(prev).entry
         /\ \E n \in store, e \in store :
               /\ Some(n.id) = Val(last).entry
               /\ Some(e.id) = Val(prev).entry
               /\ n.supersedes_id = Some(e.id)
               /\ n.is_complete
               /\ ~e.is_complete )

\* an incomplete first import was followed by a complete second import
C5_Witness ==
    /\ TwoInARow
    /\ IsNone(Val(prev).found)
    /\ Val(prev).got.outcome = "ok"
    /\ ~Val(prev).got.is_complete
    /\ Val(last).got.outcome = "ok"
    /\ Val(last).got.is_complete
    /\ Val(last).kind = "inserted"

\* the cached entry has ingredients and steps
RowComplete(r) == r.ingredients # <<>> /\ r.steps # <<>>

\* C6: when the fetcher raises the store is unchanged (by the lookup and by
\* the failure handling); with an entry for the URL the call returns that
\* entry, with none the failure reaches the caller.
C6_FetchFailureFallsBack ==
    [][\A c \in Callers :
        /\ (call[c].pc = "idle" /\ call'[c].pc = "fetching") => store' = store
        /\ (Completes(c) /\ Val(last').got.outcome = "raise")
           => ( /\ store' = store
                /\ IF ~IsNone(call[c].existing)
                   THEN /\ Val(last').kind = "fallback"
                        /\ Val(last').entry = Some(Val(call[c].existing).id)
                        /\ Val(last').complete = RowComplete(Val(call[c].existing))
                   ELSE /\ Val(last').kind = "raised"
                        /\ IsNone(Val(last').entry) )]_vars

\* a fetch failure was answered with the cached entry
C6_Witness ==
    /\ ~IsNone(last)
    /\ Val(last).got.outcome = "raise"
    /\ Val(last).kind = "fallback"
    /\ \E r \in store : Some(r.id) = Val(last).entry

\* the Comparison Rule of section 4.3
RuleAccepts(new_score, new_complete, e) ==
    \/ new_complete /\ ~e.is_complete
    \/ (new_complete <=> e.is_complete) /\ new_score > e.quality_score

\* row r with its two timestamps set to the clock
Touched(r) == [r EXCEPT !.last_fetched_at = Some(Naive(now)), !.updated_at = Naive(now)]

\* C7: a successful refetch that the Comparison Rule does not accept inserts
\* no row, sets the two timestamps of the existing entry, leaves every other
\* field and every other row as it was, and returns the existing entry.
C7_NotBetterTouchesOnly ==
    [][\A c \in Callers :
        ( /\ Completes(c)
          /\ Val(last').got.outcome = "ok"
          /\ ~IsNone(call[c].existing)
          /\ ~RuleAccepts(Val(last').got.score, Val(last').got.is_complete,
                          Val(call[c].existing)) )
        => ( /\ RowIds(store') = RowIds(store)
             /\ Cardinality(store') = Cardinality(store)
             /\ \A r \in store :
                   RowOf(store', r.id) =
                       IF r.id = Val(call[c].existing).id THEN Touched(r) ELSE r
             /\ Val(last').kind = "touched"
             /\ Val(last').entry = Some(Val(call[c].existing).id) )]_vars

\* a refetch with the score of the existing entry refreshed its timestamps
C7_Witness ==
    /\ ~IsNone(last)
    /\ Val(last).kind = "touched"
    /\ \E r \in store :
          /\ Some(r.id) = Val(last).entry
          /\ r.quality_score = Val(last).got.score
          /\ Val(r.last_fetched_at).wall > 0

\* the step adds exactly one row and changes no other
InsertsOne == \E n \in store' : n.id \notin RowIds(store) /\ store' = store \cup {n}

\* the step sets the timestamps of exactly one row and changes no other
TouchesOne == \E e \in store : store' = (store \ {e}) \cup {Touched(e)}

\* C8 as stated: every call that returns successfully inserts one row or
\* touches one row.
C8_EverySuccessWritesOneRow ==
    [][( /\ last' # last
         /\ Val(last').kind # "raised" )
       => \/ Val(last').kind = "inserted" /\ InsertsOne
          \/ Val(last').kind = "touched" /\ TouchesOne]_vars

\* C8: every call whose fetcher returns a payload inserts exactly one row or
\* touches exactly one row; a call served from the cache (fresh hit, or
\* fallback after a fetch failure) writes nothing; no step deletes a row.
C8_FetchSuccessWritesOneRow ==
    [][/\ (last' # last /\ Val(last').got.outcome = "ok")
          => \/ Val(last').kind = "inserted" /\ InsertsOne
             \/ Val(last').kind = "touched" /\ TouchesOne
       /\ (last' # last /\ Val(last').got.outcome # "ok") => store' = store
       /\ RowIds(store) \subseteq RowIds(store')
       /\ Cardinality(store') <= Cardinality(store) + 1]_vars

\* a call touched one of two rows of its URL, at a later time than they were written
C8_Witness ==
    /\ ~IsNone(last)
    /\ Val(last).kind = "touched"
    /\ \E r \in store, q \in store :
          /\ Some(r.id) = Val(last).entry
          /\ q.id # r.id
          /\ q.source_url_normalized = r.source_url_normalized
          /\ q.updated_at.wall < r.updated_at.wall

\* C9: _is_better rejects an incomplete result against a complete entry,
\* accepts a complete result against an incomplete entry, and otherwise
\* accepts exactly when the new score is strictly greater.
C9_IsBetterRule ==
    (probe.fn = "_is_better" /\ ~IsNone(probe.out))
    => LET new_score == probe.args.new_score
           new_complete == probe.args.new_complete
           existing == probe.args.existing
           accepted == Val(probe.out)
       IN /\ (existing.is_complete /\ ~new_complete) => ~accepted
          /\ (new_complete /\ ~existing.is_complete) => accepted
          /\ (new_complete <=> existing.is_complete)
             => (accepted <=> new_score > existing.quality_score)

\* a complete result with the score of the complete entry was rejected
C9_Witness ==
    /\ probe.fn = "_is_better"
    /\ ~IsNone(probe.out)
    /\ probe.args.new_complete
    /\ probe.args.existing.is_complete
    /\ probe.args.new_score = probe.args.existing.quality_score
    /\ probe.args.new_score >= 70
    /\ ~Val(probe.out)

\* how long before the clock a datetime lies, a naive one read as UTC
AgeAt(dt, clock) ==
    IF IsNone(dt.tz) THEN clock - dt.wall ELSE clock - (dt.wall - Val(dt.tz))

\* C10: _should_reimport asks for a refetch exactly when there is no entry,
\* or it is incomplete, or its score is below 70, or it has no fetch
\* timestamp, or its last fetch is more than 30 days old.
C10_FreshnessRule ==
    (probe.fn = "_should_reimport" /\ ~IsNone(probe.out))
    => LET existing == probe.args.existing
       IN Val(probe.out) <=>
            \/ IsNone(existing)
            \/ ~Val(existing).is_complete
            \/ Val(existing).quality_score < 70
            \/ IsNone(Val(existing).last_fetched_at)
            \/ AgeAt(Val(Val(existing).last_fetched_at), probe.args.clock)
                 > 30 * TicksPerDay

\* a complete entry with score 70 and a naive timestamp 31 days old is refetched
C10_Witness ==
    /\ probe.fn = "_should_reimport"
    /\ ~IsNone(probe.out)
    /\ ~IsNone(probe.args.existing)
    /\ Val(probe.args.existing).is_complete
    /\ Val(probe.args.existing).quality_score = 70
    /\ Val(probe.args.existing).last_fetched_at
         = Some(Naive(probe.args.clock - 31 * TicksPerDay))
    /\ Val(probe.out)

\* the row a call inserted in this step
Inserted(c) ==
    CHOOSE n \in store' : n.id \notin RowIds(store) /\ Some(n.id) = Val(last').entry

\* C11: a row persisted while an entry E exists for the URL has
\* supersedes_id = E.id and the canonical_group_id of E; a row persisted with
\* no prior entry has supersedes_id null and a canonical_group_id that no row
\* of the store carried before.
C11_NewRowLinksToExisting ==
    [][\A c \in Callers :
        (Completes(c) /\ Val(last').kind = "inserted")
        => ( /\ \E n \in store' : n.id \notin RowIds(store) /\ Some(n.id) = Val(last').entry
             /\ IF ~IsNone(call[c].existing)
                THEN /\ Inserted(c).supersedes_id = Some(Val(call[c].existing).id)
                     /\ Inserted(c).canonical_group_id
                          = Val(call[c].existing).canonical_group_id
                     /\ ~IsNone(Inserted(c).canonical_group_id)
                ELSE /\ IsNone(Inserted(c).supersedes_id)
                     /\ ~IsNone(Inserted(c).canonical_group_id)
                     /\ \A r \in store :
                           r.canonical_group_id # Inserted(c).canonical_group_id )]_vars

\* the store holds a row without predecessor and a row that supersedes it and
\* shares its group, written by the last call
C11_Witness ==
    /\ ~IsNone(last)
    /\ Val(last).kind = "inserted"
    /\ \E e \in store, n \in store :
          /\ IsNone(e.supersedes_id)
          /\ Some(n.id) = Val(last).entry
          /\ n.supersedes_id = Some(e.id)
          /\ n.canonical_group_id = e.canonical_group_id
          /\ n.id # e.id

\* C12: when a call persists a row that supersedes an entry E, E stays in the
\* store with every field as it was, and so does every other row.
C12_SupersededEntryUntouched ==
    [][\A c \in Callers :
        (Completes(c) /\ Val(last').kind = "inserted" /\ ~IsNone(call[c].existing))
        => ( /\ \A r \in store : r \in store'
             /\ \E e \in store' :
                   /\ e.id = Val(call[c].existing).id
                   /\ e = RowOf(store, e.id)
             /\ Cardinality(store') = Cardinality(store) + 1 )]_vars

\* an incomplete entry written earlier is still in the store, with its
\* timestamps, beside the complete row that superseded it later
C12_Witness ==
    /\ ~IsNone(last)
    /\ Val(last).kind = "inserted"
    /\ \E e \in store, n \in store :
          /\ Some(n.id) = Val(last).entry
          /\ n.supersedes_id = Some(e.id)
          /\ ~e.is_complete
          /\ n.is_complete
          /\ e.updated_at.wall < n.updated_at.wall
          /\ e.last_fetched_at = Some(e.updated_at)

\* C13: rows written for different normalized URLs from payloads with the same
\* canonical content hash carry the same canonical_group_id.
C13_SameHashSameGroup ==
    \A r \in store, q \in store :
        ( /\ r.source_url_normalized # q.source_url_normalized
          /\ r.canonical_hash = q.canonical_hash )
        => r.canonical_group_id = q.canonical_group_id

\* two payloads that differ as texts have the same canonical hash
SameHashDifferentPayload ==
    /\ PayloadFull # PayloadFullReprint
    /\ _build_canonical_hash(PayloadFull) = _build_canonical_hash(PayloadFullReprint)
    /\ _build_canonical_hash(PayloadFull) # _build_canonical_hash(PayloadTitleOnly)

\* position of the first occurrence of a call in a trace, 0 when absent
FirstCall(calls, name) ==
    IF \E i \in 1..Len(calls) : calls[i] = name
    THEN CHOOSE i \in 1..Len(calls) :
            calls[i] = name /\ \A j \in 1..(i - 1) : calls[j] # name
    ELSE 0

\* C14: a URL import request performs the cache lookup (import_with_cache)
\* before anything else, and the platform's fetcher runs only after it and
\* only when the store holds no reusable entry for the normalized URL.
C14_CacheLookupBeforeFetcher ==
    request.pc # "idle"
    => ( /\ FirstCall(request.calls, "import_with_cache") = 1
         /\ FirstCall(request.calls, ServiceOf(request.endpoint)) > 0
            => \A e \in Lookup(normalize_url(request.url)) :
                  IsNone(e) \/ ~ReusableAt(Val(e), now) )

\* the lookup for a URL finds no entry that may be reused
NothingReusable(url) ==
    \A e \in Lookup(normalize_url(url)) : _should_reimport(e, now)

\* C15: nothing serializes the calls for one URL: a caller may start a call
\* while other calls are fetching, a call that starts then and finds nothing
\* reusable invokes the fetcher, and a call that found no entry and whose
\* fetcher returns inserts its row whatever other calls wrote in between.
C15_NothingSerializes ==
    [][/\ \A c \in Callers :
             (call[c].pc = "idle" /\ \E o \in Callers : call[o].pc = "fetching")
             => MayBegin(c)
       /\ \A c \in Callers, url \in ConcUrls :
             (Begin(c, url) /\ InFlight > 0 /\ NothingReusable(url))
             => ( /\ call'[c].pc = "fetching"
                  /\ \A o \in Callers \ {c} : call'[o] = call[o] )
       /\ \A c \in Callers :
             (Completes(c) /\ Val(last').got.outcome = "ok" /\ IsNone(call[c].existing))
             => (Val(last').kind = "inserted" /\ InsertsOne)]_vars

\* two calls for one URL both found no entry, both fetched and both inserted
\* a row: the store holds two rows of the URL that supersede nothing
C15_Witness ==
    /\ TwoInARow
    /\ Val(prev).kind = "inserted" /\ Val(last).kind = "inserted"
    /\ IsNone(Val(prev).found) /\ IsNone(Val(last).found)
    /\ Val(prev).got.outcome = "ok" /\ Val(last).got.outcome = "ok"
    /\ \E r \in store, q \in store :
          /\ Some(r.id) = Val(prev).entry
          /\ Some(q.id) = Val(last).entry
          /\ r.id # q.id
          /\ r.source_url_normalized = q.source_url_normalized
          /\ IsNone(r.supersedes_id) /\ IsNone(q.supersedes_id)

\* C16: when racing imports have written two rows for one URL, neither
\* superseding anything, the row with the later update time (the one later
\* lookups select) is not worse under the Comparison Rule than the other.
C16_RaceSelfHealing ==
    \A r \in store, q \in store :
        ( /\ r.id # q.id
          /\ r.source_url_normalized = q.source_url_normalized
          /\ IsNone(r.supersedes_id) /\ IsNone(q.supersedes_id)
          /\ q.updated_at.wall > r.updated_at.wall )
        => ( /\ Lookup(q.source_url_normalized) = {Some(q)}
             /\ ~RuleAccepts(r.quality_score, r.is_complete, q) )

\* C17: normalize_url is idempotent: normalising a normalised URL yields the
\* same string.
C17_NormalizeIdempotent ==
    (probe.fn = "normalize_url" /\ ~IsNone(probe.out))
    => Val(probe.out).twice = Val(probe.out).once

\* C18: URLs that differ only in tracking parameters, in the fragment, in the
\* letter case of scheme or host or in a trailing slash of the path have the
\* same cache key, and the key's query holds exactly the non-tracking
\* parameters of the URL with their values, in order.
C18_VariantsShareKey ==
    (probe.fn = "normalize_url" /\ ~IsNone(probe.out))
    => ( /\ Val(probe.out).other = Val(probe.out).once
         /\ urlparse(Val(probe.out).once).query
              = JoinAmp(SelectSeq(probe.args.url.query, NotSpecTracking)) )

\* the field holds text that is not blank
HasText(o) == ~IsNone(o) /\ \E i \in 1..Len(Val(o)) : ~IsSpace(Val(o)[i])

\* the field holds a list with at least one item, or a string with at least
\* one character
HasItems(o) == ~IsNone(o) /\ Len(Val(o)) >= 1

\* C19: the score is 10 for a title + 10 for a description + 35 for at least
\* one ingredient + 35 for at least one step + 10 for a calorie value,
\* counting the fields present; is_complete holds exactly when there are both
\* ingredients and steps; "ingredients" / "steps" are recorded as missing
\* exactly when the list is empty; giving a payload without steps a step
\* list raises its score by exactly 35.
C19_ScoreTable ==
    (probe.fn = "_score_recipe" /\ ~IsNone(probe.out))
    => LET p == probe.args
           r == Val(probe.out).result
       IN /\ r.score = (IF HasText(p.title) THEN 10 ELSE 0)
                      + (IF HasText(p.description) THEN 10 ELSE 0)
                      + (IF HasItems(p.ingredients) THEN 35 ELSE 0)
                      + (IF HasItems(p.instructions) THEN 35 ELSE 0)
                      + (IF HasItems(p.nutritionCalories) THEN 10 ELSE 0)
          /\ r.is_complete <=> (HasItems(p.ingredients) /\ HasItems(p.instructions))
          /\ InSeq("ingredients", r.missing) <=> ~HasItems(p.ingredients)
          /\ InSeq("steps", r.missing) <=> ~HasItems(p.instructions)
          /\ ~HasItems(p.instructions)
             => Val(probe.out).with_steps.score = r.score + 35
          /\ Val(probe.out).with_steps.is_complete <=> HasItems(p.ingredients)

\* a payload with a blank title, the calorie value "0", an ingredient and no
\* steps scored 45 and was incomplete; with a step list it scores 80
C19_Witness ==
    /\ probe.fn = "_score_recipe"
    /\ ~IsNone(probe.out)
    /\ probe.args.title = Some(<<" ">>)
    /\ probe.args.nutritionCalories = Some(<<"0">>)
    /\ probe.args.instructions = Some(<<>>)
    /\ Val(probe.out).result.score = 45
    /\ ~Val(probe.out).result.is_complete
    /\ Val(probe.out).result.missing = <<"title", "steps">>
    /\ Val(probe.out).with_steps.score = 80

\* the German and the English indicator tokens
GermanTokens ==
    { <<" ","u","n","d"," ">>,
      <<" ","m","i","t"," ">>,
      <<" ","z","u","t","a","t","e","n">>,
      <<" ","o","f","e","n">>,
      <<" ","p","f","a","n","n","e">>,
      <<" ","m","i","n","u","t","e","n">>,
      <<" ","g","r","a","m","m">>,
      <<" ","e","l"," ">>,
      <<" ","t","l"," ">>,
      <<" ","d","i","e"," ">>,
      <<" ","d","e","r"," ">>,
      <<" ","d","a","s"," ">>,
      <<" ","z","u","b","e","r","e","i","t","u","n","g">> }
EnglishTokens ==
    { <<" ","a","n","d"," ">>,
      <<" ","w","i","t","h"," ">>,
      <<" ","i","n","g","r","e","d","i","e","n","t","s">>,
      <<" ","o","v","e","n">>,
      <<" ","p","a","n">>,
      <<" ","m","i","n","u","t","e","s">>,
      <<" ","t","b","s","p">>,
      <<" ","t","s","p">>,
      <<" ","c","u","p","s">>,
      <<" ","p","r","e","h","e","a","t">>,
      <<" ","b","a","k","e">>,
      <<" ","s","e","r","v","e">> }

\* the token occurs in the text as a substring
Found(token, text) ==
    \E i \in 1..Len(text) :
        /\ i + Len(token) - 1 <= Len(text)
        /\ \A k \in 1..Len(token) : text[i + k - 1] = token[k]

\* the German count of a text: its German tokens found, plus 2 for an umlaut or sharp s
GermanCount(text) ==
    Cardinality({token \in GermanTokens : Found(token, text)})
    + (IF \E c \in {"ä", "ö", "ü", "ß"} : InSeq(c, text) THEN 2 ELSE 0)

EnglishCount(text) == Cardinality({token \in EnglishTokens : Found(token, text)})

\* a payload that has the given title and nothing else
TitleOnly(title) ==
    [ title |-> title, description |-> NoneV, nutritionCalories |-> NoneV,
      ingredients |-> NoneV, instructions |-> NoneV ]

\* C20: detect_language returns "de" exactly when the number of German
\* indicator tokens found in the lower-cased text, plus 2 if any of ä/ö/ü/ß
\* occurs, is strictly greater than the number of English indicator tokens
\* found, and "en" otherwise, a tie and the empty text included; the text
\* "250 g Mehl und 2 Eier" gives "de", "preheat the oven and whisk the eggs"
\* gives "en".
C20_LanguageByCounts ==
    (probe.fn = "detect_language" /\ ~IsNone(probe.out))
    => \E text \in {Val(probe.out).text}, code \in {Val(probe.out).language_code} :
          /\ code \in {"de", "en"}
          /\ text = Lower(text)
          /\ code = "de" <=> GermanCount(text) > EnglishCount(text)
          /\ text = <<>> => code = "en"
          /\ probe.args = TitleOnly(TitleMehl) => code = "de"
          /\ probe.args = TitleOnly(TitlePreheat) => code = "en"

\* a text with an umlaut, no German token and two English tokens is a tie,
\* 2 against 2, and was answered "en"
C20_Witness ==
    /\ probe.fn = "detect_language"
    /\ ~IsNone(probe.out)
    /\ InSeq("ö", Val(probe.out).text)
    /\ GermanCount(Val(probe.out).text) = 2
    /\ EnglishCount(Val(probe.out).text) = 2
    /\ Val(probe.out).language_code = "en"

\* the text "250 g mehl und 2 eier" alone was answered "de"
C20_WitnessExample ==
    /\ probe.fn = "detect_language"
    /\ probe.args = TitleOnly(TitleMehl)
    /\ ~IsNone(probe.out)
    /\ Val(probe.out).language_code = "de"

\* C21: detect_language is an order-independent function of the text: two
\* payloads whose text consists of the same words in a different order get
\* the same language code.
C21_OrderIndependent ==
    (probe.fn = "detect_language_orders" /\ ~IsNone(probe.out))
    => Val(probe.out).first = Val(probe.out).second

RECURSIVE WordsOf(_)
\* the words of a text, in lower case
WordsOf(s) ==
    IF s = <<>> THEN <<>>
    ELSE IF IsSpace(Head(s)) THEN WordsOf(Tail(s))
    ELSE LET n == IF \E i \in 1..Len(s) : IsSpace(s[i])
                  THEN (CHOOSE i \in 1..Len(s) :
                            IsSpace(s[i]) /\ \A j \in 1..(i - 1) : ~IsSpace(s[j])) - 1
                  ELSE Len(s)
         IN <<Lower(SubSeq(s, 1, n))>> \o WordsOf(SubSeq(s, n + 1, Len(s)))

\* the words of an optional text
WordsOfOpt(o) == IF IsNone(o) THEN <<>> ELSE WordsOf(Val(o))

\* two lists of items whose texts under the key have the same words
SameWordsIn(a, b, key) ==
    /\ IsNone(a) <=> IsNone(b)
    /\ ~IsNone(a) =>
          /\ Len(Val(a)) = Len(Val(b))
          /\ \A i \in 1..Len(Val(a)) : WordsOfOpt(Val(a)[i][key]) = WordsOfOpt(Val(b)[i][key])

\* the payloads differ at most in letter case and whitespace of the title,
\* the ingredient lines and the step texts
DifferInCaseOrSpaceOnly(p, q) ==
    /\ IsNone(p.title) <=> IsNone(q.title)
    /\ WordsOfOpt(p.title) = WordsOfOpt(q.title)
    /\ SameWordsIn(p.ingredients, q.ingredients, "line")
    /\ SameWordsIn(p.instructions, q.instructions, "text")

\* the list has two items
TwoItems(o) == ~IsNone(o) /\ Len(Val(o)) = 2

\* C22: two payloads that differ only in letter case or in whitespace of the
\* title, the ingredient lines or the step texts get the same digest, and a
\* payload with two ingredient lines, or two step texts, in the other order
\* gets another digest.
C22_HashStableAndOrdered ==
    (probe.fn = "_build_canonical_hash" /\ ~IsNone(probe.out))
    => /\ DifferInCaseOrSpaceOnly(probe.args.payload, probe.args.variant)
          => Val(probe.out).variant = Val(probe.out).payload
       /\ TwoItems(probe.args.variant.ingredients)
          => Val(probe.out).ingredients_reversed # Val(probe.out).variant
       /\ TwoItems(probe.args.variant.instructions)
          => Val(probe.out).steps_reversed # Val(probe.out).variant

\* a payload and a variant of it, different from it in the case and the
\* whitespace of title, ingredient lines and step texts, got the same digest,
\* and reversing its two ingredients or its two steps gave other digests
C22_Witness ==
    /\ probe.fn = "_build_canonical_hash"
    /\ ~IsNone(probe.out)
    /\ DifferInCaseOrSpaceOnly(probe.args.payload, probe.args.variant)
    /\ probe.args.variant.title # probe.args.payload.title
    /\ TwoItems(probe.args.payload.ingredients)
    /\ TwoItems(probe.args.payload.instructions)
    /\ probe.args.variant.ingredients # probe.args.payload.ingredients
    /\ probe.args.variant.instructions # probe.args.payload.instructions
    /\ Val(probe.out).variant = Val(probe.out).payload
    /\ Val(probe.out).ingredients_reversed # Val(probe.out).variant
    /\ Val(probe.out).steps_reversed # Val(probe.out).variant

\* import_web ran on a page it could fetch
WebRan ==
    /\ service.name = "web"
    /\ service.pc \in {"returned", "raised"}
    /\ service.error # "HTTPError"

\* C26: import_web makes the language-model call only when the page has no
\* recipe node to choose; whenever a node is found, the recipe is mapped from
\* a node of the page and no model call is made in that import.
C26_ModelCallOnlyWithoutNode ==
    WebRan
    => /\ InSeq("_openai_from_page", service.calls) <=> service.page = <<>>
       /\ service.page # <<>>
          => /\ InSeq("_schema_to_recipe", service.calls)
             /\ \E i \in 1..Len(service.page) :
                   /\ service.structured = <<service.page[i]>>
                   /\ service.pc = "returned"
                      => service.data = Some(model_dump_recipe(_schema_to_recipe(service.page[i])))

\* a page with two recipe nodes, of which the second is the more complete
\* one, was imported from that node without a model call
C26_Witness ==
    /\ WebRan
    /\ service.pc = "returned"
    /\ Len(service.page) = 2
    /\ service.structured = <<service.page[2]>>
    /\ service.calls = <<"fetch_html", "_schema_to_recipe">>

\* a page whose only recipe node has neither ingredients nor steps was
\* answered with an error, without a model call
C26_WitnessEmptyNode ==
    /\ WebRan
    /\ service.pc = "raised"
    /\ Len(service.page) = 1
    /\ service.page[1].recipeIngredient = <<>>
    /\ service.page[1].recipeInstructions = <<>>
    /\ service.calls = <<"fetch_html", "_schema_to_recipe">>

\* C24: in one import_youtube call the total duration of the audio segments
\* sent to transcription never exceeds WHISPER_MAX_TOTAL_SECONDS, whatever
\* the outcome of the individual chunks.
C24_TranscribedWithinBudget ==
    service.name = "youtube" => service.audio.sent <= WHISPER_MAX_TOTAL_SECONDS

\* the seconds of the chunks whose transcript had text stay within the budget
C24_CollectedWithinBudget ==
    service.name = "youtube" => service.audio.used <= WHISPER_MAX_TOTAL_SECONDS

\* C23: for every import source, a result that has no ingredients and no
\* steps is answered with an error; it is never returned as a successful
\* recipe.
C23_EmptyResultIsAnError ==
    mode = "sources" /\ request.pc = "done" /\ request.status = 200
    => _has_import_data(Val(request.recipe))

\* import_web alone refuses a result without ingredients and steps
C23_WebRefusesEmpty ==
    mode = "sources" /\ request.pc = "done" /\ request.status = 200
    /\ request.endpoint = "web"
    => _has_import_data(Val(request.recipe))

\* every other source has answered 200 with a recipe that has neither
EmptyAnswered(source) ==
    /\ mode = "sources"
    /\ request.pc = "done"
    /\ request.status = 200
    /\ request.endpoint = source
    /\ ~_has_import_data(Val(request.recipe))

\* C25: import_instagram runs OCR and the second structuring call only when
\* the first structuring result has an empty ingredient list and an empty
\* step list.
C25_OcrOnlyAsLastResort ==
    service.name = "instagram" /\ InSeq("_ocr_from_image", service.calls)
    => /\ Len(service.structured[1].ingredients) = 0
       /\ Len(service.structured[1].steps) = 0

\* OCR is never run on a first result that has both ingredients and steps
C25_NoOcrOnFullResult ==
    service.name = "instagram" /\ InSeq("_ocr_from_image", service.calls)
    => \/ Len(service.structured[1].ingredients) = 0
       \/ Len(service.structured[1].steps) = 0

\* C27: every row import_with_cache has written is complete exactly when its
\* quality_score is at least QUALITY_MIN_SCORE, so the freshness rule decides
\* on such a row as it would if the score test were not there.
C27_CompleteIffMinScore ==
    mode = "seq"
    => \A r \in store :
          /\ r.is_complete <=> r.quality_score >= QUALITY_MIN_SCORE
          /\ _should_reimport(Some(r), now)
             <=> _should_reimport(Some([r EXCEPT !.quality_score = QUALITY_MIN_SCORE]), now)

\* the store holds an incomplete row one step below the minimum score (all
\* but the steps, 65) and a complete row exactly at it (70)
C27_Witness ==
    /\ mode = "seq"
    /\ \E r \in store : ~r.is_complete /\ r.quality_score = QUALITY_MIN_SCORE - 5
    /\ \E r \in store : r.is_complete /\ r.quality_score = QUALITY_MIN_SCORE

\* the rows of the store for a normalized URL
RowsOfUrl(normalized) == {r \in store : r.source_url_normalized = normalized}

\* C28: when imports of a URL run one after another, the rows of the URL form
\* one linear chain: exactly one row has supersedes_id null, every other
\* row's supersedes_id is the id of an earlier row of the URL, and no two
\* rows have the same supersedes_id.
C28_LinearHistory ==
    mode = "chain"
    => \A normalized \in {r.source_url_normalized : r \in store} :
          /\ Cardinality({r \in RowsOfUrl(normalized) : IsNone(r.supersedes_id)}) = 1
          /\ \A r \in RowsOfUrl(normalized) :
                ~IsNone(r.supersedes_id)
                => \E e \in RowsOfUrl(normalized) :
                      r.supersedes_id = Some(e.id) /\ e.id < r.id
          /\ \A r \in RowsOfUrl(normalized), q \in RowsOfUrl(normalized) :
                (~IsNone(r.supersedes_id) /\ r.supersedes_id = q.supersedes_id) => r = q

\* the history is a tree rooted in the first row of the URL: one row has
\* supersedes_id null and every other row points to an earlier row
C28_RootedHistory ==
    mode = "chain"
    => \A normalized \in {r.source_url_normalized : r \in store} :
          /\ Cardinality({r \in RowsOfUrl(normalized) : IsNone(r.supersedes_id)}) = 1
          /\ \A r \in RowsOfUrl(normalized) :
                ~IsNone(r.supersedes_id)
                => \E e \in RowsOfUrl(normalized) :
                      r.supersedes_id = Some(e.id) /\ e.id < r.id

\* all rows of one normalized URL carry one canonical_group_id
OneGroupPerUrl ==
    \A r \in store, q \in store :
        r.source_url_normalized = q.source_url_normalized
        => r.canonical_group_id = q.canonical_group_id

\* C29: all rows with the same normalized source URL carry the same
\* canonical_group_id, also when imports of the URL run concurrently.
C29_OneGroupPerUrlConcurrently == mode = "conc" => OneGroupPerUrl

\* when imports run one after another the rows of a URL share one group
C29_OneGroupPerUrlInSequence == mode \in {"seq", "chain"} => OneGroupPerUrl

\* C30: a call invokes the fetcher at most once, and the step in which the
\* fetcher returns or raises ends the call, with a result or with the
\* failure: a failed fetch is not tried again within the call.
C30_FetchOnceThenDone ==
    [][\A c \in Callers :
        /\ call'[c].fetches <= 1
        /\ (call[c].pc = "fetching" /\ call'[c] # call[c])
           => ( /\ call'[c].pc # "fetching"
                /\ call'[c].fetches = 0
                /\ last' # last
                /\ Val(last').got.outcome \in {"ok", "raise"}
                /\ Val(last').got.outcome = "raise"
                   => Val(last').kind \in {"fallback", "raised"}
                /\ Val(last').got.outcome = "ok"
                   => Val(last').kind \in {"touched", "inserted"} )]_vars

\* a call whose fetch failed with no entry to fall back on has ended with the
\* failure, and its caller is ready for the next call
C30_Witness ==
    /\ mode = "seq"
    /\ ~IsNone(last)
    /\ Val(last).got.outcome = "raise"
    /\ Val(last).kind = "raised"
    /\ call[1].pc = "idle"
    /\ call[1].fetches = 0

====
